---- MODULE Spec2Model ----
(***************************************************************************)
(* Model of the statement import handlers of app/api/import/route.ts and   *)
(* of the store (staging_import, transactions, payee_mapping) they act on. *)
(*                                                                         *)
(* Text is modelled character by character: a string is a sequence of      *)
(* one-character strings, so that trimming, splitting, quoting and the     *)
(* date / amount conversions are computed the way the code computes them.  *)
(***************************************************************************)
EXTENDS Integers, Sequences, FiniteSets, TLC

(***************************************************************************)
(* Characters and the JavaScript string primitives the handlers use.       *)
(***************************************************************************)
Digits == <<"0", "1", "2", "3", "4", "5", "6", "7", "8", "9">>

LowerLetters ==
    <<"a", "b", "c", "d", "e", "f", "g", "h", "i", "j", "k", "l", "m",
      "n", "o", "p", "q", "r", "s", "t", "u", "v", "w", "x", "y", "z">>

UpperLetters ==
    <<"A", "B", "C", "D", "E", "F", "G", "H", "I", "J", "K", "L", "M",
      "N", "O", "P", "Q", "R", "S", "T", "U", "V", "W", "X", "Y", "Z">>

Range(s) == {s[i] : i \in 1..Len(s)}

IndexIn(c, s) == CHOOSE i \in 1..Len(s) : s[i] = c

IsDigit(c) == c \in Range(Digits)

DigitVal(c) == IndexIn(c, Digits) - 1

\* /\s/ restricted to the white space characters of the sampled inputs
IsSpace(c) == c \in {" ", "\t", "\n", "\r"}

LowerChar(c) == IF c \in Range(UpperLetters) THEN LowerLetters[IndexIn(c, UpperLetters)] ELSE c

UpperChar(c) == IF c \in Range(LowerLetters) THEN UpperLetters[IndexIn(c, LowerLetters)] ELSE c

toLowerCase(s) == [i \in 1..Len(s) |-> LowerChar(s[i])]

toUpperCase(s) == [i \in 1..Len(s) |-> UpperChar(s[i])]

\* the positions of s that hold no white space
Inked(s) == {i \in 1..Len(s) : ~IsSpace(s[i])}

Min(S) == CHOOSE x \in S : \A y \in S : x <= y

Max(S) == CHOOSE x \in S : \A y \in S : x >= y

trimStart(s) == IF Inked(s) = {} THEN <<>> ELSE SubSeq(s, Min(Inked(s)), Len(s))

trimEnd(s) == IF Inked(s) = {} THEN <<>> ELSE SubSeq(s, 1, Max(Inked(s)))

trim(s) == trimEnd(trimStart(s))

\* s.slice(from, to) with zero-based, end-exclusive indices
slice(s, from, to) == SubSeq(s, from + 1, IF to > Len(s) THEN Len(s) ELSE to)

\* s.replace(/\s+/g, " ")
collapseSpaces(s) ==
    LET starts == SelectSeq([i \in 1..Len(s) |-> i],
                            LAMBDA i : ~IsSpace(s[i]) \/ i = 1 \/ ~IsSpace(s[i - 1]))
    IN  [k \in 1..Len(starts) |-> IF IsSpace(s[starts[k]]) THEN " " ELSE s[starts[k]]]

\* s.padStart(2, "0")
padStart2(s) == IF Len(s) < 2 THEN <<"0">> \o s ELSE s

\* hay.includes(pat)
includes(hay, pat) ==
    \E i \in 0..(Len(hay) - Len(pat)) : SubSeq(hay, i + 1, i + Len(pat)) = pat

\* s.split(sep) for a one-character separator
split(s, sep) ==
    LET at   == SelectSeq([i \in 1..Len(s) |-> i], LAMBDA i : s[i] = sep)
        from == <<0>> \o at
        to   == at \o <<Len(s) + 1>>
    IN  [k \in 1..Len(from) |-> SubSeq(s, from[k] + 1, to[k] - 1)]

\* parts.join(" ")
RECURSIVE joinSpace(_)
joinSpace(parts) ==
    IF parts = <<>> THEN <<>>
    ELSE IF Len(parts) = 1 THEN parts[1]
    ELSE parts[1] \o <<" ">> \o joinSpace(Tail(parts))

\* content.replace(/\r\n/g, "\n").replace(/\r/g, "\n")
normalizeNewlines(s) ==
    LET kept == SelectSeq([i \in 1..Len(s) |-> i],
                          LAMBDA i : ~(s[i] = "\r" /\ i < Len(s) /\ s[i + 1] = "\n"))
    IN  [k \in 1..Len(kept) |-> IF s[kept[k]] = "\r" THEN "\n" ELSE s[kept[k]]]

(***************************************************************************)
(* Header detection and row parsing.                                       *)
(***************************************************************************)
norm(s) == collapseSpaces(trim(toLowerCase(s)))

detectDelimiter(line) ==
    IF "\t" \in Range(line) THEN "\t"
    ELSE IF "," \in Range(line) THEN ","
    ELSE "\t"

\* parseDelimitedLine, its loop unrolled: inQuotes at a character is the parity of the
\* quotes before it (the loop toggles at a quote or consumes two of them), a delimiter
\* outside quotes ends a field, and a quote is added to cur exactly when it is read
\* inside quotes with a quote next
parseDelimitedLine(line, delim) ==
    LET inQuotes == [i \in 1..Len(line) |->
                        Cardinality({j \in 1..(i - 1) : line[j] = "\""}) % 2 = 1]
        at       == SelectSeq([i \in 1..Len(line) |-> i],
                              LAMBDA i : line[i] = delim /\ ~inQuotes[i])
        from     == <<0>> \o at
        to       == at \o <<Len(line) + 1>>
        added(i) == line[i] = "\"" => inQuotes[i] /\ i < Len(line) /\ line[i + 1] = "\""
        cur(k)   == SelectSeq([i \in 1..(to[k] - from[k] - 1) |-> from[k] + i], added)
    IN  [k \in 1..Len(from) |-> trim([n \in 1..Len(cur(k)) |-> line[cur(k)[n]]])]

required ==
    << <<"t", "r", "a", "n", "s", "a", "c", "t", "i", "o", "n", " ", "t", "y", "p", "e">>,
       <<"d", "a", "t", "e", " ", "p", "o", "s", "t", "e", "d">>,
       <<"t", "r", "a", "n", "s", "a", "c", "t", "i", "o", "n", " ", "a", "m", "o", "u", "n", "t">>,
       <<"d", "e", "s", "c", "r", "i", "p", "t", "i", "o", "n">> >>

NameType ==
    <<"T", "r", "a", "n", "s", "a", "c", "t", "i", "o", "n", " ", "T", "y", "p", "e">>

NameDate ==
    <<"D", "a", "t", "e", " ", "P", "o", "s", "t", "e", "d">>

NameAmount ==
    <<"T", "r", "a", "n", "s", "a", "c", "t", "i", "o", "n", " ", "A", "m", "o", "u", "n", "t">>

NameDesc ==
    <<"D", "e", "s", "c", "r", "i", "p", "t", "i", "o", "n">>

Unknown ==
    <<"U", "n", "k", "n", "o", "w", "n">>

Uncategorized ==
    <<"U", "n", "c", "a", "t", "e", "g", "o", "r", "i", "z", "e", "d">>

\* null, as the result of findHeader
NoHeader == [found |-> FALSE]

mapNorm(fields) == [i \in 1..Len(fields) |-> norm(fields[i])]

\* the loop of findHeader from line i (one-based) on; headerIndex is zero-based
RECURSIVE findHeaderFrom(_, _)
findHeaderFrom(lines, i) ==
    IF i > Len(lines) THEN NoHeader
    ELSE LET raw   == trim(lines[i])
             delim == detectDelimiter(raw)
             cols  == mapNorm(parseDelimitedLine(raw, delim))
         IN  IF raw = <<>> THEN findHeaderFrom(lines, i + 1)
             ELSE IF \A k \in 1..Len(required) : required[k] \in Range(cols)
                  THEN [found |-> TRUE, headerIndex |-> i - 1, delim |-> delim, cols |-> cols]
             ELSE findHeaderFrom(lines, i + 1)

\* a findHeader that returns the last line that holds the required names
findHeaderLast(lines) ==
    LET at == {i \in 1..Len(lines) : findHeaderFrom(<<lines[i]>>, 1).found}
    IN  IF at = {} THEN NoHeader
        ELSE [findHeaderFrom(<<lines[Max(at)]>>, 1) EXCEPT !.headerIndex = Max(at) - 1]

findHeader(lines) == findHeaderFrom(lines, 1)

\* cols.findIndex(c => c === norm(name)): zero-based, -1 when absent
pickIndex(cols, name) ==
    IF \E i \in 1..Len(cols) : cols[i] = norm(name)
    THEN (CHOOSE i \in 1..Len(cols) :
              cols[i] = norm(name) /\ \A j \in 1..(i - 1) : cols[j] # norm(name)) - 1
    ELSE -1

\* (fields[idx] || "").trim() for a zero-based idx
fieldAt(fields, idx) == IF idx + 1 \in 1..Len(fields) THEN trim(fields[idx + 1]) ELSE <<>>

\* a description that leaves out the trailing fields
descField(fields, idxDesc) == fieldAt(fields, idxDesc)

\* the description of a data line: the description field plus any trailing fields
descOf(fields, idxDesc) ==
    LET desc == fieldAt(fields, idxDesc)
        tail == IF Len(fields) > idxDesc + 1
                THEN trim(joinSpace(SubSeq(fields, idxDesc + 2, Len(fields))))
                ELSE <<>>
    IN  IF tail # <<>> THEN trim(desc \o <<" ">> \o tail) ELSE desc

\* the row parsing loop of POST from line i (one-based) on
RECURSIVE parseRowsFrom(_, _, _, _, _, _, _)
parseRowsFrom(lines, i, delim, idxType, idxDate, idxAmt, idxDesc) ==
    IF i > Len(lines) THEN <<>>
    ELSE LET raw     == trim(lines[i])
             fields  == parseDelimitedLine(raw, delim)
             tType   == fieldAt(fields, idxType)
             dPosted == fieldAt(fields, idxDate)
             amt     == fieldAt(fields, idxAmt)
             desc    == descOf(fields, idxDesc)
             rest    == parseRowsFrom(lines, i + 1, delim, idxType, idxDate, idxAmt, idxDesc)
         IN  IF raw = <<>> THEN rest
             ELSE IF tType = <<>> \/ dPosted = <<>> \/ amt = <<>> THEN rest
             ELSE << [date_raw         |-> dPosted,
                      transaction_type |-> toUpperCase(tType),
                      amount_raw       |-> amt,
                      description      |-> IF desc = <<>> THEN Unknown ELSE desc,
                      processed        |-> FALSE] >> \o rest

(***************************************************************************)
(* Date, amount and payee normalization.                                   *)
(***************************************************************************)
\* null, as the result of parseBmoDateToISO; no string of characters equals it
null == <<"null">>

\* NaN, as the result of Number(..) and of new Date(..).getTime()
NaN == [nan |-> TRUE, num |-> 0, exp |-> 0]

AllDigits(s) == \A i \in 1..Len(s) : IsDigit(s[i])

\* new Date(s).toISOString().slice(0, 10) for the date-time texts of the sampled
\* inputs, NaN for every other text
DateParse(s) ==
    IF s = <<"2", "0", "2", "5", "-", "0", "7", "-", "1", "1", "T",
             "1", "0", ":", "0", "0", ":", "0", "0", "Z">>
    THEN [nan |-> FALSE, iso |-> <<"2", "0", "2", "5", "-", "0", "7", "-", "1", "1">>]
    ELSE NaN

parseBmoDateToISO(dateRaw) ==
    LET s     == trim(dateRaw)
        parts == split(s, "/")
    IN  IF s = <<>> THEN null
        ELSE IF Len(s) = 8 /\ AllDigits(s)
             THEN slice(s, 0, 4) \o <<"-">> \o slice(s, 4, 6) \o <<"-">> \o slice(s, 6, 8)
        ELSE IF /\ Len(s) = 10
                /\ AllDigits(slice(s, 0, 4)) /\ s[5] = "-"
                /\ AllDigits(slice(s, 5, 7)) /\ s[8] = "-"
                /\ AllDigits(slice(s, 8, 10))
             THEN s
        ELSE IF /\ Len(parts) = 3
                /\ Len(parts[1]) \in 1..2 /\ AllDigits(parts[1])
                /\ Len(parts[2]) \in 1..2 /\ AllDigits(parts[2])
                /\ Len(parts[3]) = 4 /\ AllDigits(parts[3])
             THEN parts[3] \o <<"-">> \o padStart2(parts[1]) \o <<"-">> \o padStart2(parts[2])
        ELSE IF DateParse(s).nan THEN null
        ELSE DateParse(s).iso

RECURSIVE DigitsToInt(_)
DigitsToInt(s) == IF s = <<>> THEN 0 ELSE 10 * DigitsToInt(SubSeq(s, 1, Len(s) - 1)) + DigitVal(s[Len(s)])

RECURSIVE Pow10(_)
Pow10(k) == IF k = 0 THEN 1 ELSE 10 * Pow10(k - 1)

stripTrailingZeros(s) ==
    LET nonzero == {i \in 1..Len(s) : s[i] # "0"}
    IN  IF nonzero = {} THEN <<>> ELSE SubSeq(s, 1, Max(nonzero))

\* Number(text) for signed decimal literals without exponent (the forms of the
\* sampled inputs); the value num / 10^exp is kept exactly, in lowest terms of 10
Number(text) ==
    LET t        == trim(text)
        negative == t # <<>> /\ Head(t) = "-"
        unsigned == IF t # <<>> /\ Head(t) \in {"-", "+"} THEN Tail(t) ELSE t
        parts    == split(unsigned, ".")
        int      == parts[1]
        frac     == IF Len(parts) = 2 THEN stripTrailingZeros(parts[2]) ELSE <<>>
        mag      == DigitsToInt(int) * Pow10(Len(frac)) + DigitsToInt(frac)
    IN  IF t = <<>> THEN [nan |-> FALSE, num |-> 0, exp |-> 0]
        ELSE IF /\ Len(parts) \in 1..2
                /\ AllDigits(int)
                /\ Len(parts) = 2 => AllDigits(parts[2])
                /\ Len(int) + (IF Len(parts) = 2 THEN Len(parts[2]) ELSE 0) > 0
             THEN [nan |-> FALSE, num |-> IF negative THEN 0 - mag ELSE mag, exp |-> Len(frac)]
        ELSE NaN

\* s.replace(/[$,]/g, "")
removeCurrency(s) == SelectSeq(s, LAMBDA c : c \notin {"$", ","})

\* null is NaN here: both mean "no number"
parseAmount(amountRaw) ==
    LET s == trim(amountRaw)
    IN  IF s = <<>> THEN NaN ELSE Number(removeCurrency(s))

\* s.replace(/^\[.*?\]\s*/g, "")
stripLeadingTag(s) ==
    IF s # <<>> /\ Head(s) = "[" /\ "]" \in Range(s)
    THEN trimStart(SubSeq(s, IndexIn("]", s) + 1, Len(s)))
    ELSE s

MaxPayeeLen == 180

cleanPayee(description) ==
    LET s == trim(description)
    IN  IF s = <<>> THEN Unknown
        ELSE slice(trim(stripLeadingTag(collapseSpaces(s))), 0, MaxPayeeLen)

\* s.replace(/[^a-z0-9 ]/g, " ")
keepAlnum(s) ==
    [i \in 1..Len(s) |->
        IF s[i] \in Range(LowerLetters) \/ IsDigit(s[i]) \/ s[i] = " " THEN s[i] ELSE " "]

normPayee(payee) == slice(trim(collapseSpaces(keepAlnum(toLowerCase(payee)))), 0, MaxPayeeLen)

\* the loop of applyMapping from mapping k on
RECURSIVE applyMappingFrom(_, _, _)
applyMappingFrom(hay, mappings, k) ==
    IF k > Len(mappings) THEN [category |-> Uncategorized, normalized |-> <<>>]
    ELSE LET m   == mappings[k]
             pat == trim(toUpperCase(m.pattern))
         IN  IF pat = <<>> THEN applyMappingFrom(hay, mappings, k + 1)
             ELSE IF includes(hay, pat)
                  THEN [category   |-> IF m.category = <<>> THEN Uncategorized ELSE m.category,
                        normalized |-> m.normalized]
             ELSE applyMappingFrom(hay, mappings, k + 1)

\* an applyMapping in which the last match wins
applyMappingLast(description, mappings) ==
    applyMappingFrom(toUpperCase(description),
                     [k \in 1..Len(mappings) |-> mappings[Len(mappings) + 1 - k]], 1)

applyMapping(description, mappings) == applyMappingFrom(toUpperCase(description), mappings, 1)

(***************************************************************************)
(* The inputs the model draws from: statement texts, credentials, server   *)
(* environments and payee_mapping tables.                                  *)
(***************************************************************************)
ContentBlank ==
    <<" ", "\r", "\n", "\t">>

ContentNoHeader ==
    <<"B", "M", "O", " ", "e", "x", "p", "o", "r", "t", "\n", "D", "a", "t", "e", ",", "A",
      "m", "o", "u", "n", "t", "\n", "2", "0", "2", "5", "0", "7", "1", "1", ",", "5">>

ContentNoRows ==
    <<"T", "r", "a", "n", "s", "a", "c", "t", "i", "o", "n", " ", "T", "y", "p", "e", ",", "D",
      "a", "t", "e", " ", "P", "o", "s", "t", "e", "d", ",", "T", "r", "a", "n", "s", "a", "c",
      "t", "i", "o", "n", " ", "A", "m", "o", "u", "n", "t", ",", "D", "e", "s", "c", "r", "i",
      "p", "t", "i", "o", "n", "\n", "D", "E", "B", "I", "T", ",", "2", "0", "2", "5", "0",
      "7", "1", "1", ",", ",", "T", "E", "A", "\n">>

ContentOne ==
    <<"T", "r", "a", "n", "s", "a", "c", "t", "i", "o", "n", " ", "T", "y", "p", "e", ",", "D",
      "a", "t", "e", " ", "P", "o", "s", "t", "e", "d", ",", "T", "r", "a", "n", "s", "a", "c",
      "t", "i", "o", "n", " ", "A", "m", "o", "u", "n", "t", ",", "D", "e", "s", "c", "r", "i",
      "p", "t", "i", "o", "n", "\r", "\n", "D", "e", "b", "i", "t", ",", "2", "0", "2", "5",
      "0", "7", "1", "1", ",", "-", "6", "0", ".", "0", "0", ",", "\"", "T", "E", "A", ",",
      " ", "H", "O", "T", "\"", "\r", "\n">>

ContentMixed ==
    <<"M", "y", " ", "C", "a", "r", "d", "\n", "\n", "T", "r", "a", "n", "s", "a", "c", "t",
      "i", "o", "n", " ", "T", "y", "p", "e", "\t", "D", "a", "t", "e", " ", "P", "o", "s",
      "t", "e", "d", "\t", " ", "T", "r", "a", "n", "s", "a", "c", "t", "i", "o", "n", " ",
      " ", "A", "m", "o", "u", "n", "t", "\t", "D", "e", "s", "c", "r", "i", "p", "t", "i",
      "o", "n", "\n", "D", "E", "B", "I", "T", "\t", "2", "0", "2", "5", "0", "7", "1", "1",
      "\t", "-", "6", "0", ".", "0", "0", "\t", "[", "D", "N", "]", "T", "E", "A", "\n", "D",
      "E", "B", "I", "T", "\t", "2", "0", "2", "5", "0", "7", "1", "2", "\t", "a", "b", "c",
      "\t", "G", "A", "S", "\n", "C", "R", "E", "D", "I", "T", "\t", "0", "7", "/", "1", "5",
      "/", "2", "0", "2", "5", "\t", "$", "1", ",", "2", "3", "4", ".", "5", "6", "\t", "P",
      "A", "Y", "\n", "D", "E", "B", "I", "T", "\t", "2", "0", "2", "5", "-", "0", "7", "-",
      "1", "6", "\t", "-", "5", "\t", "T", "E", "A", "\t", "e", "x", "t", "r", "a">>

ContentAllBad ==
    <<"D", "e", "s", "c", "r", "i", "p", "t", "i", "o", "n", ",", "T", "r", "a", "n", "s", "a",
      "c", "t", "i", "o", "n", " ", "A", "m", "o", "u", "n", "t", ",", "D", "a", "t", "e", " ",
      "P", "o", "s", "t", "e", "d", ",", "T", "r", "a", "n", "s", "a", "c", "t", "i", "o", "n",
      " ", "T", "y", "p", "e", "\n", "X", ",", "-", "1", ",", "a", "b", "c", ",", "D", "E",
      "B", "I", "T", "\n", "Y", ",", "1", ".", "2", ".", "3", ",", "2", "0", "2", "5", "0",
      "7", "1", "1", ",", "D", "E", "B", "I", "T", "b", "e", "a", "r", "e", "r">>

\* body.content of the sampled requests
Contents ==
    <<ContentBlank, ContentNoHeader, ContentNoRows, ContentOne, ContentMixed, ContentAllBad>>

ImportKey == <<"k">>

WrongKey == <<"x">>

\* the credential carrying parts of the sampled requests: the three headers POST reads
\* and the two body fields
Credentials ==
    LET none == [xApiKey |-> <<>>, xImportApiKey |-> <<>>, authorization |-> <<>>,
                 importApiKey |-> <<>>, apiKey |-> <<>>]
    IN  { none,
          [none EXCEPT !.xApiKey = ImportKey],
          [none EXCEPT !.xApiKey = WrongKey, !.importApiKey = ImportKey],
          [none EXCEPT !.xImportApiKey = <<" ">> \o ImportKey],
          [none EXCEPT !.authorization = <<"B", "e", "a", "r", "e", "r", " ">> \o ImportKey],
          [none EXCEPT !.apiKey = ImportKey \o <<" ">>],
          [none EXCEPT !.importApiKey = WrongKey, !.apiKey = ImportKey] }

\* process.env of the sampled servers
Environments ==
    LET set == [IMPORT_API_KEY |-> ImportKey, SUPABASE_URL |-> <<"u">>, SERVICE_ROLE |-> <<"s">>]
    IN  { set,
          [set EXCEPT !.IMPORT_API_KEY = <<>>],
          [set EXCEPT !.SUPABASE_URL = <<>>],
          [set EXCEPT !.SERVICE_ROLE = <<>>],
          [set EXCEPT !.IMPORT_API_KEY = <<>>, !.SUPABASE_URL = <<>>] }

\* the payee_mapping table of the sampled stores
MappingTables ==
    { << [pattern |-> <<"t", "e", "a">>, normalized |-> <<"T", "e", "a">>, category |-> <<"F", "o", "o", "d">>],
        [pattern |-> <<"A">>, normalized |-> <<>>, category |-> <<>>] >> }

(***************************************************************************)
(* Bounds of the model.                                                    *)
(***************************************************************************)
\* requests handled in one behaviour
NumRequests == 2

\* store calls that answer with an error in one behaviour
MaxStoreErrors == 1

\* clock ticks in one behaviour
MaxTicks == 2

Requests == 1..NumRequests

(***************************************************************************)
(* State.                                                                  *)
(***************************************************************************)
VARIABLES
    env,              \* process.env of the server
    staging_import,   \* the staging table: row k has id k (rows are never deleted)
    transactions,     \* the transactions table, a set of rows
    tx_id_seq,        \* the last id the store gave to a transactions row
    payee_mapping,    \* the payee_mapping table
    now,              \* the clock, in ms
    storeErrors,      \* store calls that answered with an error so far
    req,              \* per request: the locals of its POST invocation and its response
    CACHE,            \* the module variable CACHE of dashboard-summary.ts: <<>> is null
    recurring_summary, \* the recurring_summary table
    dash,             \* per dashboard request: the locals of its handler invocation
    call              \* a call of one function of the two files: its arguments, its result

vars == <<env, staging_import, transactions, tx_id_seq, payee_mapping, now, storeErrors, req,
          CACHE, recurring_summary, dash, call>>

\* the state only the dashboard handler touches
dashboard == <<CACHE, recurring_summary, dash>>

store == <<staging_import, transactions, tx_id_seq, payee_mapping>>

\* a counter the response does not carry
Absent == -1

NoResponse ==
    [status |-> 0, ok |-> FALSE, error |-> "", inserted_count |-> Absent,
     deleted_existing_tx_count |-> Absent, processed_count |-> Absent]

\* NextResponse.json({ok: false, error}, {status})
ErrorResponse(status, error) == [NoResponse EXCEPT !.status = status, !.error = error]

StoreErrorMessage == "store error"

\* the locals of POST before the request arrives; parsed, calls, failedAt and selected
\* are bookkeeping of the model: whether the content was parsed, the store calls made,
\* the call that answered with an error, and the ids of the staging rows transformed
IdleRequest ==
    [pc |-> "idle", c |-> 0, providedKey |-> <<>>, parsed |-> FALSE,
     rowsToInsert |-> <<>>, mappings |-> <<>>, i |-> 0,
     insertedCount |-> 0, insertedStage |-> <<>>, stageIds |-> <<>>,
     deletedExistingTxCount |-> 0, candidates |-> <<>>, processedCount |-> 0,
     stage |-> <<>>, txToInsert |-> <<>>,
     resp |-> NoResponse, calls |-> 0, failedAt |-> "", selected |-> {}]

\* a response that carries no payload
NoPayload ==
    [cached |-> FALSE, generated_at |-> Absent, tiles |-> [currentBalance |-> 0],
     recurring |-> <<>>, upcomingBills |-> <<>>,
     charts |-> [weeklySeries26 |-> <<>>], unmappedPayees |-> <<>>]

DashNoResponse == [status |-> 0, error |-> "", payload |-> NoPayload]

\* res.status(status).json({error})
DashError(status, error) == [status |-> status, error |-> error, payload |-> NoPayload]

\* the locals of the dashboard handler before the request arrives; failed, servedBy,
\* servedAge and stale are bookkeeping of the model: the fetches that failed, the
\* request that computed the cache entry served and the age of that entry, and whether
\* the cache check found an entry that was too old
IdleDash ==
    [pc |-> "idle", token |-> <<>>, transactions |-> <<>>, weeklySeries26 |-> <<>>,
     recRows |-> <<>>, recurringData |-> <<>>, unmappedPayees |-> <<>>,
     resp |-> DashNoResponse,
     failed |-> {}, servedBy |-> 0, servedAge |-> Absent, stale |-> FALSE]

\* no function is called on its own
NoCall == [fn |-> "none", done |-> FALSE]

Init ==
    /\ call = NoCall
    /\ CACHE = <<>>
    /\ recurring_summary = <<>>
    /\ dash = [r \in Requests |-> IdleDash]
    /\ env \in Environments
    /\ staging_import = <<>>
    /\ transactions = {}
    /\ tx_id_seq = 0
    /\ payee_mapping \in MappingTables
    /\ now = 0
    /\ storeErrors = 0
    /\ req = [r \in Requests |-> IdleRequest]

(***************************************************************************)
(* POST up to its first store call: environment, credential, input format. *)
(***************************************************************************)
\* s.replace(/^Bearer\s+/i, "")
stripBearer(s) ==
    IF /\ Len(s) > 6
       /\ toLowerCase(SubSeq(s, 1, 6)) = <<"b", "e", "a", "r", "e", "r">>
       /\ IsSpace(s[7])
    THEN trimStart(SubSeq(s, 7, Len(s)))
    ELSE s

headerKeyOf(cred) ==
    IF cred.xApiKey # <<>> THEN cred.xApiKey
    ELSE IF cred.xImportApiKey # <<>> THEN cred.xImportApiKey
    ELSE stripBearer(cred.authorization)

bodyKeyOf(cred) == trim(IF cred.importApiKey # <<>> THEN cred.importApiKey ELSE cred.apiKey)

\* a credential resolution that prefers the body to the headers
providedKeyBodyFirst(cred) == trim(IF bodyKeyOf(cred) # <<>> THEN bodyKeyOf(cred) ELSE headerKeyOf(cred))

providedKeyOf(cred) == trim(IF headerKeyOf(cred) # <<>> THEN headerKeyOf(cred) ELSE bodyKeyOf(cred))

envMissing(e) == e.SUPABASE_URL = <<>> \/ e.SERVICE_ROLE = <<>>

\* a check that lets a request without credential through
unauthorizedWhenProvided(e, providedKey) ==
    e.IMPORT_API_KEY = <<>> \/ (providedKey # <<>> /\ providedKey # e.IMPORT_API_KEY)

unauthorized(e, providedKey) == e.IMPORT_API_KEY = <<>> \/ providedKey # e.IMPORT_API_KEY

\* a check that lets a statement without data rows through
noDataRowsUnchecked(rows) == FALSE

\* rowsToInsert.length === 0
noDataRows(rows) == Len(rows) = 0

\* content check, header detection and row parsing: the 400 response, or the rows
parseContent(content) ==
    LET lines   == split(normalizeNewlines(content), "\n")
        header  == findHeader(lines)
        idxType == pickIndex(header.cols, NameType)
        idxDate == pickIndex(header.cols, NameDate)
        idxAmt  == pickIndex(header.cols, NameAmount)
        idxDesc == pickIndex(header.cols, NameDesc)
        rows    == parseRowsFrom(lines, header.headerIndex + 2, header.delim,
                                 idxType, idxDate, idxAmt, idxDesc)
    IN  IF trim(content) = <<>>
        THEN [rows |-> <<>>, resp |-> ErrorResponse(400, "Missing file content")]
        ELSE IF ~header.found
        THEN [rows |-> <<>>, resp |-> ErrorResponse(400, "Could not find header row")]
        ELSE IF idxType < 0 \/ idxDate < 0 \/ idxAmt < 0 \/ idxDesc < 0
        THEN [rows |-> <<>>, resp |-> ErrorResponse(400, "Header detected but required columns missing")]
        ELSE IF noDataRows(rows)
        THEN [rows |-> <<>>, resp |-> ErrorResponse(400, "No data rows found after header")]
        ELSE [rows |-> rows, resp |-> NoResponse]

\* parseContent of each sampled content, computed once
Parsed == [c \in DOMAIN Contents |-> parseContent(Contents[c])]

\* the locals of POST when it reaches its first store call, or its early response;
\* next is the pc of the first store call of the handler. The credential is read after
\* the environment check and body.content after the credential check.
receive(e, cred, c, next) ==
    LET key    == providedKeyOf(cred)
        keyed  == [IdleRequest EXCEPT !.providedKey = key]
        parsed == [keyed EXCEPT !.c = c, !.parsed = TRUE]
    IN  IF envMissing(e)
        THEN [IdleRequest EXCEPT !.pc = "done",
                                 !.resp = ErrorResponse(500, "Missing Supabase server env vars")]
        ELSE IF unauthorized(e, key)
        THEN [keyed EXCEPT !.pc = "done",
                           !.resp = ErrorResponse(401, "Unauthorized (bad IMPORT_API_KEY)")]
        ELSE IF Parsed[c].resp.status # 0
        THEN [parsed EXCEPT !.pc = "done", !.resp = Parsed[c].resp]
        ELSE [parsed EXCEPT !.pc = next, !.rowsToInsert = Parsed[c].rows]

(***************************************************************************)
(* The store calls of the handlers.                                        *)
(***************************************************************************)
\* rows per store round trip (500 in the code, scaled down so that a statement of a
\* few rows spans several batches)
BATCH == 2

\* .limit(2000) of the payee_mapping select
MappingLimit == 2000

\* batches that overlap by one row
batchAtOverlapping(list, i) == slice(list, i, i + BATCH + 1)

\* list.slice(i, i + BATCH)
batchAt(list, i) == slice(list, i, i + BATCH)

\* supabase.from("staging_import").insert(batch): the rows as the store keeps them;
\* by is bookkeeping of the model, the request that inserted the row
stagedRows(batch, first, at, r) ==
    [k \in 1..Len(batch) |->
        [id               |-> first + k,
         date_raw         |-> batch[k].date_raw,
         transaction_type |-> batch[k].transaction_type,
         amount_raw       |-> batch[k].amount_raw,
         description      |-> batch[k].description,
         processed        |-> batch[k].processed,
         created_at       |-> at,
         by               |-> r]]

\* an insert that keeps only the first row of the batch
insertedFirstOnly(batch, first) == {[batch[k] EXCEPT !.id = first + k] : k \in {1}}

\* an update that removes the rows it marks
markProcessedRemoving(table, ids) == SelectSeq(table, LAMBDA row : row.id \notin Range(ids))

\* supabase.from("transactions").insert(batch): the rows as the store keeps them
insertedTransactions(batch, first) ==
    {[batch[k] EXCEPT !.id = first + k] : k \in 1..Len(batch)}

\* supabase.from("staging_import").update({processed: true}).in("id", ids)
markProcessed(table, ids) ==
    [k \in 1..Len(table) |->
        IF table[k].id \in Range(ids) THEN [table[k] EXCEPT !.processed = TRUE] ELSE table[k]]

\* list.map(r => r.id).filter(Boolean)
idsOf(list) == SelectSeq([k \in 1..Len(list) |-> list[k].id], LAMBDA id : id # 0)

\* list.map(t => t.source_staging_id).filter(Boolean)
sourceIdsOf(list) ==
    SelectSeq([k \in 1..Len(list) |-> list[k].source_staging_id], LAMBDA id : id # 0)

normalizes(row) == parseBmoDateToISO(row.date_raw) # null /\ ~parseAmount(row.amount_raw).nan

\* the transaction POST builds from a staging row and the mapping applyMapping found
transactionOf(row, mapped) ==
    LET iso             == parseBmoDateToISO(row.date_raw)
        amtNum          == parseAmount(row.amount_raw)
        basePayeeClean  == cleanPayee(row.description)
        finalPayeeClean == IF mapped.normalized # <<>> THEN mapped.normalized ELSE basePayeeClean
    IN  [id                |-> 0,
         date              |-> iso,
         transaction_type  |-> row.transaction_type,
         amount            |-> amtNum,
         description       |-> row.description,
         payee_clean       |-> finalPayeeClean,
         payee_norm        |-> normPayee(finalPayeeClean),
         category          |-> IF mapped.category = <<>> THEN Uncategorized ELSE mapped.category,
         is_transfer       |-> FALSE,
         is_savings        |-> FALSE,
         likely_loc        |-> FALSE,
         notes             |-> null,
         source_staging_id |-> row.id,
         date_parsed       |-> iso,
         amount_num        |-> amtNum,
         processed         |-> TRUE]

\* a transform that drops only the rows whose date fails
candidatesOfDateOnly(stage, mappings) ==
    LET kept == SelectSeq(stage, LAMBDA row : parseBmoDateToISO(row.date_raw) # null)
    IN  [k \in 1..Len(kept) |-> transactionOf(kept[k], applyMapping(kept[k].description, mappings))]

\* insertedStage.map(..).filter(Boolean) of the delete-then-reinsert handler
candidatesOf(stage, mappings) ==
    LET kept == SelectSeq(stage, normalizes)
    IN  [k \in 1..Len(kept) |-> transactionOf(kept[k], applyMapping(kept[k].description, mappings))]

\* stage.map(..).filter(Boolean) of the select-unprocessed handler, which applies no mapping
txToInsertOf(stage) ==
    LET kept == SelectSeq(stage, normalizes)
    IN  [k \in 1..Len(kept) |->
            transactionOf(kept[k], [category |-> Uncategorized, normalized |-> <<>>])]

\* the answer to a request whose store call answered with an error
failWith(rec, resp) ==
    [rec EXCEPT !.pc = "done", !.resp = resp, !.calls = @ + 1, !.failedAt = rec.pc]

CanFail == storeErrors < MaxStoreErrors

\* the requests being handled; the model lets a request in while at most one other
\* is being handled, so any two handlers interleave in every possible way
InFlight == {q \in Requests : req[q].pc \notin {"idle", "done"}}

(***************************************************************************)
(* The delete-then-reinsert handler (the later POST of route.ts).          *)
(***************************************************************************)
\* an error response without the count, as the select-unprocessed handler gives
stagingErrorResponseNoCount(rec) == ErrorResponse(500, StoreErrorMessage)

\* the error response of the staging insert loop
stagingErrorResponse(rec) ==
    [ErrorResponse(500, StoreErrorMessage) EXCEPT !.inserted_count = rec.insertedCount]

\* the error response of the delete loop, and of the zero-candidates check (400)
deleteErrorResponse(rec, status, error) ==
    [ErrorResponse(status, error) EXCEPT
        !.inserted_count = rec.insertedCount,
        !.deleted_existing_tx_count = rec.deletedExistingTxCount]

\* a response that reports the staged rows as processed
countersResponseStaged(rec, status, ok, error) ==
    [status |-> status, ok |-> ok, error |-> error,
     inserted_count            |-> rec.insertedCount,
     deleted_existing_tx_count |-> rec.deletedExistingTxCount,
     processed_count           |-> rec.insertedCount]

\* the response of the transaction insert loop and of the update: error or success
countersResponse(rec, status, ok, error) ==
    [status |-> status, ok |-> ok, error |-> error,
     inserted_count            |-> rec.insertedCount,
     deleted_existing_tx_count |-> rec.deletedExistingTxCount,
     processed_count           |-> rec.processedCount]

\* the ids the final update marks processed
markedIds(rec) == rec.stageIds

\* a check that lets an empty candidate list through
noCandidatesUnchecked(candidates) == FALSE

\* candidates.length === 0
noCandidates(candidates) == Len(candidates) = 0

\* after the delete loop: transform, then the zero-candidates check
afterDelete(rec) ==
    LET candidates == candidatesOf(rec.insertedStage, rec.mappings)
        next       == [rec EXCEPT !.candidates = candidates, !.i = 0,
                                  !.selected = Range(idsOf(rec.insertedStage))]
    IN  IF noCandidates(candidates)
        THEN [next EXCEPT !.pc = "done",
                          !.resp = deleteErrorResponse(rec, 400, "Inserted staging rows but none could be parsed into transactions")]
        ELSE [next EXCEPT !.pc = "insertTx"]

\* after the staging insert loop: the ids to delete for
afterStage(rec) ==
    LET next == [rec EXCEPT !.stageIds = idsOf(rec.insertedStage), !.i = 0]
    IN  IF Len(next.stageIds) = 0 THEN afterDelete(next) ELSE [next EXCEPT !.pc = "delete"]

Receive(r) ==
    /\ req[r].pc = "idle"
    /\ \A q \in Requests : q < r => req[q].pc # "idle"
    /\ Cardinality(InFlight) <= 1
    /\ \E cred \in Credentials, c \in DOMAIN Contents :
           req' = [req EXCEPT ![r] = receive(env, cred, c, "mappings")]
    /\ UNCHANGED <<call, dashboard, env, staging_import, transactions, tx_id_seq, payee_mapping, now, storeErrors>>

LoadMappings(r) ==
    /\ req[r].pc = "mappings"
    /\ req' = [req EXCEPT ![r] = [@ EXCEPT !.pc = "stage", !.calls = @ + 1, !.i = 0,
                                            !.mappings = slice(payee_mapping, 0, MappingLimit)]]
    /\ UNCHANGED <<call, dashboard, env, staging_import, transactions, tx_id_seq, payee_mapping, now, storeErrors>>

LoadMappingsError(r) ==
    /\ req[r].pc = "mappings"
    /\ CanFail
    /\ storeErrors' = storeErrors + 1
    /\ req' = [req EXCEPT ![r] = failWith(@, ErrorResponse(500, StoreErrorMessage))]
    /\ UNCHANGED <<call, dashboard, env, staging_import, transactions, tx_id_seq, payee_mapping, now>>

InsertStaging(r) ==
    /\ req[r].pc = "stage"
    /\ LET rec   == req[r]
           batch == batchAt(rec.rowsToInsert, rec.i)
           data  == stagedRows(batch, Len(staging_import), now, r)
           next  == [rec EXCEPT !.insertedCount = @ + Len(batch),
                                !.insertedStage = @ \o data,
                                !.i = @ + BATCH,
                                !.calls = @ + 1]
       IN  /\ staging_import' = staging_import \o data
           /\ req' = [req EXCEPT ![r] =
                        IF next.i < Len(rec.rowsToInsert) THEN next ELSE afterStage(next)]
    /\ UNCHANGED <<call, dashboard, env, transactions, tx_id_seq, payee_mapping, now, storeErrors>>

InsertStagingError(r) ==
    /\ req[r].pc = "stage"
    /\ CanFail
    /\ storeErrors' = storeErrors + 1
    /\ req' = [req EXCEPT ![r] = failWith(@, stagingErrorResponse(@))]
    /\ UNCHANGED <<call, dashboard, env, staging_import, transactions, tx_id_seq, payee_mapping, now>>

\* a delete that takes every transaction up to the newest id of the batch
deletedUpTo(table, batchIds) ==
    {t \in table : \E id \in Range(batchIds) : t.source_staging_id <= id}

\* supabase.from("transactions").delete().in("source_staging_id", batchIds): the rows deleted
deletedTransactions(table, batchIds) ==
    {t \in table : t.source_staging_id \in Range(batchIds)}

DeleteExisting(r) ==
    /\ req[r].pc = "delete"
    /\ LET rec      == req[r]
           batchIds == batchAt(rec.stageIds, rec.i)
           data     == deletedTransactions(transactions, batchIds)
           next     == [rec EXCEPT !.deletedExistingTxCount = @ + Cardinality(data),
                                   !.i = @ + BATCH,
                                   !.calls = @ + 1]
       IN  /\ transactions' = transactions \ data
           /\ req' = [req EXCEPT ![r] =
                        IF next.i < Len(rec.stageIds) THEN next ELSE afterDelete(next)]
    /\ UNCHANGED <<call, dashboard, env, staging_import, tx_id_seq, payee_mapping, now, storeErrors>>

DeleteExistingError(r) ==
    /\ req[r].pc = "delete"
    /\ CanFail
    /\ storeErrors' = storeErrors + 1
    /\ req' = [req EXCEPT ![r] = failWith(@, deleteErrorResponse(@, 500, StoreErrorMessage))]
    /\ UNCHANGED <<call, dashboard, env, staging_import, transactions, tx_id_seq, payee_mapping, now>>

InsertTransactions(r) ==
    /\ req[r].pc = "insertTx"
    /\ LET rec   == req[r]
           batch == batchAt(rec.candidates, rec.i)
           next  == [rec EXCEPT !.processedCount = @ + Len(batch),
                                !.i = @ + BATCH,
                                !.calls = @ + 1]
       IN  /\ transactions' = transactions \cup insertedTransactions(batch, tx_id_seq)
           /\ tx_id_seq' = tx_id_seq + Len(batch)
           /\ req' = [req EXCEPT ![r] =
                        IF next.i < Len(rec.candidates) THEN next ELSE [next EXCEPT !.pc = "mark"]]
    /\ UNCHANGED <<call, dashboard, env, staging_import, payee_mapping, now, storeErrors>>

InsertTransactionsError(r) ==
    /\ req[r].pc = "insertTx"
    /\ CanFail
    /\ storeErrors' = storeErrors + 1
    /\ req' = [req EXCEPT ![r] = failWith(@, countersResponse(@, 500, FALSE, StoreErrorMessage))]
    /\ UNCHANGED <<call, dashboard, env, staging_import, transactions, tx_id_seq, payee_mapping, now>>

MarkProcessed(r) ==
    /\ req[r].pc = "mark"
    /\ staging_import' = markProcessed(staging_import, markedIds(req[r]))
    /\ req' = [req EXCEPT ![r] = [@ EXCEPT !.pc = "done", !.calls = @ + 1,
                                            !.resp = countersResponse(req[r], 200, TRUE, "")]]
    /\ UNCHANGED <<call, dashboard, env, transactions, tx_id_seq, payee_mapping, now, storeErrors>>

MarkProcessedError(r) ==
    /\ req[r].pc = "mark"
    /\ CanFail
    /\ storeErrors' = storeErrors + 1
    /\ req' = [req EXCEPT ![r] = failWith(@, countersResponse(@, 500, FALSE, StoreErrorMessage))]
    /\ UNCHANGED <<call, dashboard, env, staging_import, transactions, tx_id_seq, payee_mapping, now>>

Next ==
    \/ \E r \in Requests : Receive(r)
    \/ \E r \in Requests : LoadMappings(r)
    \/ \E r \in Requests : LoadMappingsError(r)
    \/ \E r \in Requests : InsertStaging(r)
    \/ \E r \in Requests : InsertStagingError(r)
    \/ \E r \in Requests : DeleteExisting(r)
    \/ \E r \in Requests : DeleteExistingError(r)
    \/ \E r \in Requests : InsertTransactions(r)
    \/ \E r \in Requests : InsertTransactionsError(r)
    \/ \E r \in Requests : MarkProcessed(r)
    \/ \E r \in Requests : MarkProcessedError(r)

\* requests served by the delete-then-reinsert handler
Spec == Init /\ [][Next]_vars

(***************************************************************************)
(* The select-unprocessed handler (the earlier POST of route.ts).          *)
(***************************************************************************)
\* 15 * 60 * 1000: how far back the select looks, in ms
WindowMs == 15 * 60 * 1000

\* one step of the clock, in ms
TickMs == 10 * 60 * 1000

\* .limit(10000) of the staging select
SelectLimit == 10000

\* .eq("processed", false).gte("created_at", sinceIso).order("id").limit(10000)
recentUnprocessed(table, at) ==
    slice(SelectSeq(table, LAMBDA row : ~row.processed /\ row.created_at >= at - WindowMs),
          0, SelectLimit)

\* the ids the final update marks processed
markedIdsOfSelect(rec) == sourceIdsOf(rec.txToInsert)

\* the responses of the select-unprocessed handler that carry counters
selectResponse(rec, status, ok, error, processed) ==
    [status |-> status, ok |-> ok, error |-> error,
     inserted_count            |-> rec.insertedCount,
     deleted_existing_tx_count |-> Absent,
     processed_count           |-> processed]

\* after the select: the empty check, transform, then the zero-transactions check
afterSelect(rec, stage) ==
    LET txToInsert == txToInsertOf(stage)
        next       == [rec EXCEPT !.stage = stage, !.txToInsert = txToInsert,
                                  !.selected = Range(idsOf(stage))]
    IN  IF Len(stage) = 0
        THEN [next EXCEPT !.pc = "done", !.resp = selectResponse(rec, 200, TRUE, "", 0)]
        ELSE IF Len(txToInsert) = 0
        THEN [next EXCEPT !.pc = "done",
                          !.resp = selectResponse(rec, 400, FALSE, "Staging rows found but none could be parsed into valid transactions", Absent)]
        ELSE [next EXCEPT !.pc = "insertTx"]

ReceiveOld(r) ==
    /\ req[r].pc = "idle"
    /\ \A q \in Requests : q < r => req[q].pc # "idle"
    /\ Cardinality(InFlight) <= 1
    /\ \E cred \in Credentials, c \in DOMAIN Contents :
           req' = [req EXCEPT ![r] = receive(env, cred, c, "stage")]
    /\ UNCHANGED <<call, dashboard, env, staging_import, transactions, tx_id_seq, payee_mapping, now, storeErrors>>

InsertStagingOld(r) ==
    /\ req[r].pc = "stage"
    /\ LET rec   == req[r]
           batch == batchAt(rec.rowsToInsert, rec.i)
           next  == [rec EXCEPT !.insertedCount = @ + Len(batch),
                                !.i = @ + BATCH,
                                !.calls = @ + 1]
       IN  /\ staging_import' = staging_import \o stagedRows(batch, Len(staging_import), now, r)
           /\ req' = [req EXCEPT ![r] =
                        IF next.i < Len(rec.rowsToInsert) THEN next ELSE [next EXCEPT !.pc = "select"]]
    /\ UNCHANGED <<call, dashboard, env, transactions, tx_id_seq, payee_mapping, now, storeErrors>>

InsertStagingOldError(r) ==
    /\ req[r].pc = "stage"
    /\ CanFail
    /\ storeErrors' = storeErrors + 1
    /\ req' = [req EXCEPT ![r] = failWith(@, ErrorResponse(500, StoreErrorMessage))]
    /\ UNCHANGED <<call, dashboard, env, staging_import, transactions, tx_id_seq, payee_mapping, now>>

SelectUnprocessed(r) ==
    /\ req[r].pc = "select"
    /\ req' = [req EXCEPT ![r] =
                 afterSelect([@ EXCEPT !.calls = @ + 1], recentUnprocessed(staging_import, now))]
    /\ UNCHANGED <<call, dashboard, env, staging_import, transactions, tx_id_seq, payee_mapping, now, storeErrors>>

SelectUnprocessedError(r) ==
    /\ req[r].pc = "select"
    /\ CanFail
    /\ storeErrors' = storeErrors + 1
    /\ req' = [req EXCEPT ![r] = failWith(@, ErrorResponse(500, StoreErrorMessage))]
    /\ UNCHANGED <<call, dashboard, env, staging_import, transactions, tx_id_seq, payee_mapping, now>>

InsertTransactionsOld(r) ==
    /\ req[r].pc = "insertTx"
    /\ transactions' = transactions \cup insertedTransactions(req[r].txToInsert, tx_id_seq)
    /\ tx_id_seq' = tx_id_seq + Len(req[r].txToInsert)
    /\ req' = [req EXCEPT ![r] = [@ EXCEPT !.pc = "mark", !.calls = @ + 1]]
    /\ UNCHANGED <<call, dashboard, env, staging_import, payee_mapping, now, storeErrors>>

InsertTransactionsOldError(r) ==
    /\ req[r].pc = "insertTx"
    /\ CanFail
    /\ storeErrors' = storeErrors + 1
    /\ req' = [req EXCEPT ![r] = failWith(@, ErrorResponse(500, StoreErrorMessage))]
    /\ UNCHANGED <<call, dashboard, env, staging_import, transactions, tx_id_seq, payee_mapping, now>>

MarkProcessedOld(r) ==
    /\ req[r].pc = "mark"
    /\ staging_import' = markProcessed(staging_import, markedIdsOfSelect(req[r]))
    /\ req' = [req EXCEPT ![r] =
                 [@ EXCEPT !.pc = "done", !.calls = @ + 1,
                           !.resp = selectResponse(req[r], 200, TRUE, "", Len(req[r].txToInsert))]]
    /\ UNCHANGED <<call, dashboard, env, transactions, tx_id_seq, payee_mapping, now, storeErrors>>

MarkProcessedOldError(r) ==
    /\ req[r].pc = "mark"
    /\ CanFail
    /\ storeErrors' = storeErrors + 1
    /\ req' = [req EXCEPT ![r] = failWith(@, ErrorResponse(500, StoreErrorMessage))]
    /\ UNCHANGED <<call, dashboard, env, staging_import, transactions, tx_id_seq, payee_mapping, now>>

\* time passes
Tick ==
    /\ now < MaxTicks * TickMs
    /\ now' = now + TickMs
    /\ UNCHANGED <<call, dashboard, env, staging_import, transactions, tx_id_seq, payee_mapping, storeErrors, req>>

NextOld ==
    \/ \E r \in Requests : ReceiveOld(r)
    \/ \E r \in Requests : InsertStagingOld(r)
    \/ \E r \in Requests : InsertStagingOldError(r)
    \/ \E r \in Requests : SelectUnprocessed(r)
    \/ \E r \in Requests : SelectUnprocessedError(r)
    \/ \E r \in Requests : InsertTransactionsOld(r)
    \/ \E r \in Requests : InsertTransactionsOldError(r)
    \/ \E r \in Requests : MarkProcessedOld(r)
    \/ \E r \in Requests : MarkProcessedOldError(r)
    \/ Tick

\* requests served by the select-unprocessed handler
SpecOld == Init /\ [][NextOld]_vars

(***************************************************************************)
(* Properties of the import handlers.                                      *)
(***************************************************************************)
Done(r) == req[r].pc = "done"

\* the staging rows request r inserted
StagedBy(r) == {k \in 1..Len(staging_import) : staging_import[k].by = r}

\* the transactions that refer to staging row id
TransactionsOf(id) == {t \in transactions : t.source_staging_id = id}

\* C1: under the delete-then-reinsert handler no two rows of the transactions table
\* share a source_staging_id, in any state, whatever requests ran or stopped at an error
C1_UniqueSourceStagingId ==
    \A t1 \in transactions, t2 \in transactions :
        t1.source_staging_id = t2.source_staging_id => t1 = t2

\* a request stopped at a store error after committing transactions, and another
\* request committed its own
C1_Witness ==
    \E r \in Requests, q \in Requests :
        /\ r # q
        /\ Done(r) /\ req[r].failedAt = "insertTx" /\ req[r].processedCount > 0
        /\ Done(q) /\ req[q].resp.ok
        /\ Cardinality(transactions) > 3

\* C2: when a request answers ok:true, each staging row it inserted has exactly one
\* transaction if its date and amount both normalize, and none if either fails
C2_OneTransactionPerNormalizedRow ==
    \A r \in Requests :
        Done(r) /\ req[r].resp.ok =>
            \A k \in StagedBy(r) :
                Cardinality(TransactionsOf(staging_import[k].id))
                    = IF normalizes(staging_import[k]) THEN 1 ELSE 0

\* a request answered ok:true for a statement with rows of both kinds
C2_Witness ==
    \E r \in Requests :
        /\ Done(r) /\ req[r].resp.ok
        /\ \E k \in StagedBy(r) : normalizes(staging_import[k])
        /\ \E k \in StagedBy(r) : ~normalizes(staging_import[k])

\* a transaction without the ids the store gave it
contentOf(t) == [t EXCEPT !.id = 0, !.source_staging_id = 0]

\* the transactions of one successful submission of content c, without ids
SubmittedOnce(c) ==
    LET list == candidatesOf(stagedRows(Parsed[c].rows, 0, 0, 0), payee_mapping)
    IN  [k \in 1..Len(list) |-> contentOf(list[k])]

\* C3: ingestion is idempotent: once every request received so far has answered, all
\* of them submitted the same content and one of them answered ok:true, the
\* transactions are those of one successful submission, in count and content
C3_IdempotentIngestion ==
    \A c \in DOMAIN Contents :
        (/\ \A r \in Requests : req[r].pc # "idle" => Done(r) /\ req[r].parsed /\ req[r].c = c
         /\ \E r \in Requests : Done(r) /\ req[r].resp.ok)
        => \A x \in {contentOf(t) : t \in transactions} \cup Range(SubmittedOnce(c)) :
               Cardinality({t \in transactions : contentOf(t) = x})
                   = Cardinality({k \in 1..Len(SubmittedOnce(c)) : SubmittedOnce(c)[k] = x})

\* C4: under the select-unprocessed handler, once every request has answered, each
\* staging row that normalizes has at most one transaction, and exactly one if a
\* request that selected it answered ok:true
C4_OneTransactionPerRowAtEnd ==
    (\A r \in Requests : req[r].pc \in {"idle", "done"}) =>
        \A k \in 1..Len(staging_import) :
            normalizes(staging_import[k]) =>
                /\ Cardinality(TransactionsOf(staging_import[k].id)) <= 1
                /\ (\E r \in Requests : k \in req[r].selected /\ req[r].resp.ok)
                       => Cardinality(TransactionsOf(staging_import[k].id)) = 1

\* C5: when a request that inserted transactions reports success, every staging row
\* of its batch is marked processed, whether it was transformed or failed normalization
C5_BatchMarkedProcessed ==
    \A r \in Requests :
        Done(r) /\ req[r].resp.ok /\ req[r].resp.processed_count > 0 =>
            \A id \in req[r].selected : staging_import[id].processed

\* C6: a staging row that failed normalization in a request that has answered is not
\* selected for transformation by a later request
C6_FailedRowNeverSelectedAgain ==
    [][\A r \in Requests, q \in Requests :
          \A id \in req'[r].selected \ req[r].selected :
              ~(/\ q # r
                /\ Done(q)
                /\ id \in req[q].selected
                /\ ~normalizes(staging_import[id]))]_vars

\* C7: when a staging batch insert fails, the response is an error whose
\* inserted_count is the number of rows of the batches inserted before, and these
\* rows are in the staging table
C7_StagingFailureCount ==
    \A r \in Requests :
        req[r].failedAt = "stage" =>
            /\ ~req[r].resp.ok
            /\ req[r].resp.status = 500
            /\ req[r].resp.inserted_count = Cardinality(StagedBy(r))
            /\ \E n \in 0..Len(req[r].rowsToInsert) :
                   /\ n * BATCH < Len(req[r].rowsToInsert)
                   /\ req[r].resp.inserted_count = n * BATCH
            /\ \A k \in 1..req[r].resp.inserted_count :
                   \E j \in StagedBy(r) :
                       /\ staging_import[j].date_raw = req[r].rowsToInsert[k].date_raw
                       /\ staging_import[j].amount_raw = req[r].rowsToInsert[k].amount_raw
                       /\ staging_import[j].description = req[r].rowsToInsert[k].description

\* the second staging batch of a request failed after the first was inserted
C7_Witness ==
    \E r \in Requests :
        req[r].failedAt = "stage" /\ req[r].resp.inserted_count = BATCH /\ StagedBy(r) # {}

\* the step that receives request r carrying credential cred and content c
ReceiveOf(r, cred, c) ==
    /\ req[r].pc = "idle"
    /\ req' = [req EXCEPT ![r] = receive(env, cred, c, "mappings")]

\* request r was turned away before header detection, row parsing and any store call
TurnedAway(r) ==
    /\ req'[r].pc = "done"
    /\ ~req'[r].resp.ok
    /\ ~req'[r].parsed
    /\ req'[r].calls = 0
    /\ store' = store

RejectedOnHeader(r, cred) ==
    /\ TurnedAway(r)
    /\ headerKeyOf(cred) # <<>> /\ ~envMissing(env) => req'[r].providedKey = trim(headerKeyOf(cred))

FormatErrors ==
    { <<ContentBlank, "Missing file content">>,
      <<ContentNoHeader, "Could not find header row">>,
      <<ContentNoRows, "No data rows found after header">> }

\* C9: a request that fails with an input-format error (empty content, no header,
\* required column missing, no data rows) answers 400 and makes no store call
C9_FormatErrorNoStoreCall ==
    \A r \in Requests :
        /\ \A e \in FormatErrors :
               req[r].parsed /\ Contents[req[r].c] = e[1] =>
                   /\ Done(r) /\ ~req[r].resp.ok
                   /\ req[r].resp.error = e[2]
        /\ req[r].resp.error \in {e[2] : e \in FormatErrors}
                                     \cup {"Header detected but required columns missing"} =>
               /\ req[r].resp.status = 400
               /\ req[r].calls = 0
               /\ StagedBy(r) = {}

\* requests failed with each of the input-format errors the sampled contents produce
C9_Witness ==
    \E r \in Requests, q \in Requests :
        /\ req[r].resp.error = "Could not find header row"
        /\ req[q].resp.error = "No data rows found after header"

\* some row of the statement of request r normalizes
SomeRowNormalizes(r) ==
    \E k \in 1..Len(req[r].rowsToInsert) : normalizes(req[r].rowsToInsert[k])

\* C10: a request that staged rows answers ok:true if at least one of its rows
\* normalizes and no store call failed; if none normalizes it answers with an error
\* (the batch-level 400 unless a store call failed) and has no transaction
C10_AbortOnlyWhenAllRowsFail ==
    \A r \in Requests :
        Done(r) /\ req[r].rowsToInsert # <<>> =>
            /\ SomeRowNormalizes(r) /\ req[r].failedAt = "" =>
                   req[r].resp.ok /\ req[r].resp.status = 200
            /\ ~SomeRowNormalizes(r) =>
                   /\ ~req[r].resp.ok
                   /\ req[r].failedAt = "" => req[r].resp.status = 400
                   /\ \A k \in StagedBy(r) : TransactionsOf(staging_import[k].id) = {}

\* one request answered ok:true for a statement with a row that fails normalization,
\* another answered the batch-level error for a statement whose rows all fail
C10_Witness ==
    \E r \in Requests, q \in Requests :
        /\ Done(r) /\ req[r].resp.ok /\ Len(req[r].candidates) < Len(req[r].rowsToInsert)
        /\ Done(q) /\ req[q].resp.status = 400 /\ StagedBy(q) # {} /\ ~SomeRowNormalizes(q)

\* the transactions that refer to the staging rows request r inserted
CommittedBy(r) == {t \in transactions : \E k \in StagedBy(r) : t.source_staging_id = staging_import[k].id}

\* C11: when a request answers ok:true, inserted_count is the number of parsed data
\* rows, all of them staged, processed_count is the number of those rows whose date and
\* amount both normalize, and processed_count <= inserted_count
C11_SuccessCounters ==
    \A r \in Requests :
        Done(r) /\ req[r].resp.ok =>
            /\ req[r].resp.inserted_count = Len(Parsed[req[r].c].rows)
            /\ req[r].resp.inserted_count = Cardinality(StagedBy(r))
            /\ req[r].resp.processed_count
                   = Cardinality({k \in StagedBy(r) : normalizes(staging_import[k])})
            /\ req[r].resp.processed_count <= req[r].resp.inserted_count

\* a request answered ok:true for four staged rows of which one fails normalization
C11_Witness ==
    \E r \in Requests :
        /\ Done(r) /\ req[r].resp.ok
        /\ req[r].resp.inserted_count = 4
        /\ req[r].resp.processed_count = 3

\* C12: when a transaction batch insert fails, the error response carries as
\* processed_count the number of transactions of this request in the store and as
\* inserted_count the number of staging rows of this request in the store
C12_TransactionFailureCounters ==
    \A r \in Requests :
        req[r].failedAt = "insertTx" =>
            /\ ~req[r].resp.ok
            /\ req[r].resp.status = 500
            /\ req[r].resp.processed_count = Cardinality(CommittedBy(r))
            /\ req[r].resp.inserted_count = Cardinality(StagedBy(r))

\* the second transaction batch of a request failed after the first was committed
C12_Witness ==
    \E r \in Requests :
        /\ req[r].failedAt = "insertTx"
        /\ req[r].resp.processed_count = BATCH
        /\ Len(req[r].candidates) > BATCH

\* C19: no step of the import removes or reorders a staging row, and a step changes an
\* existing staging row only by setting processed from false to true
C19_StagingAppendOnly ==
    [][/\ Len(staging_import') >= Len(staging_import)
       /\ \A k \in 1..Len(staging_import) :
             \/ staging_import'[k] = staging_import[k]
             \/ /\ ~staging_import[k].processed
                /\ staging_import'[k] = [staging_import[k] EXCEPT !.processed = TRUE]]_vars

\* a request marked its rows processed while the rows of another request are unmarked
C19_Witness ==
    \E j \in 1..Len(staging_import), k \in 1..Len(staging_import) :
        /\ staging_import[j].processed
        /\ ~staging_import[k].processed
        /\ staging_import[j].by # staging_import[k].by

\* C20: a step of request r leaves in place and unchanged every transaction whose
\* source_staging_id is not the id of a staging row r inserted
C20_ForeignTransactionsUntouched ==
    [][\A r \in Requests :
          req'[r] # req[r] =>
              \A t \in transactions :
                  (\A k \in StagedBy(r) : t.source_staging_id # staging_import[k].id)
                      => t \in transactions']_vars

\* a request finished its delete loop while the store held transactions of another
C20_Witness ==
    \E r \in Requests, q \in Requests :
        /\ r # q
        /\ req[r].pc = "insertTx" /\ req[r].i = 0 /\ req[r].deletedExistingTxCount = 0
        /\ CommittedBy(q) # {}

\* C28: a delete of request r names only ids of staging rows r inserted, it removes no
\* transaction, and no response carries a deleted_existing_tx_count other than 0
C28_DeleteRemovesNothing ==
    [][\A r \in Requests :
          /\ req[r].pc = "delete" /\ req'[r] # req[r] =>
                 /\ Range(batchAt(req[r].stageIds, req[r].i))
                        \subseteq {staging_import[k].id : k \in StagedBy(r)}
                 /\ transactions' = transactions
          /\ req'[r].deletedExistingTxCount = 0
          /\ req'[r].resp.deleted_existing_tx_count \in {Absent, 0}]_vars

\* the same statement was imported twice with success, the second time with the
\* transactions of the first in the store, and both answers count no deleted transaction
C28_Witness ==
    \E r \in Requests, q \in Requests :
        /\ r < q /\ req[r].c = req[q].c
        /\ req[r].resp.ok /\ req[r].resp.deleted_existing_tx_count = 0
        /\ req[q].resp.ok /\ req[q].resp.deleted_existing_tx_count = 0
        /\ CommittedBy(r) # {} /\ CommittedBy(q) # {}

\* C29: a staging row of request r is processed only if r inserted every batch of its
\* transactions with success; and after an error response of r none of the rows r staged
\* is processed, whatever r committed
C29_ProcessedOnlyAfterAllBatches ==
    /\ \A k \in 1..Len(staging_import) :
           staging_import[k].processed =>
               LET rec == req[staging_import[k].by]
               IN  /\ rec.candidates # <<>>
                   /\ rec.processedCount = Len(rec.candidates)
                   /\ Cardinality(CommittedBy(staging_import[k].by)) = Len(rec.candidates)
                   /\ rec.failedAt = ""
    /\ \A r \in Requests :
           Done(r) /\ ~req[r].resp.ok => \A k \in StagedBy(r) : ~staging_import[k].processed

\* the insert of a later batch of transactions failed: the first batch is committed and
\* every staging row of the request, those of the committed transactions too, is unprocessed
C29_Witness ==
    \E r \in Requests :
        /\ Done(r) /\ req[r].failedAt = "insertTx" /\ ~req[r].resp.ok
        /\ \E t \in CommittedBy(r), k \in StagedBy(r) :
               t.source_staging_id = staging_import[k].id /\ ~staging_import[k].processed
        /\ \A k \in StagedBy(r) : ~staging_import[k].processed

(***************************************************************************)
(* The dashboard summary handler of pages/api/dashboard-summary.ts (the    *)
(* PostgREST handler with the in-memory cache) and the tables it reads.    *)
(*                                                                         *)
(* A Date is kept as its time value in hours since 1970-01-01T00:00Z (the  *)
(* sampled rows carry no finer time); Date.now() differences are taken on  *)
(* the clock now, in ms. Amounts are kept in cents: the sampled amounts    *)
(* have at most two decimals, so toFixed(2) leaves them unchanged.         *)
(***************************************************************************)
HoursPerDay == 24

MsPerHour == 3600 * 1000

\* the Date of the instant at which the clock now reads 0: 2025-09-17T12:00Z
ClockStart == 20348 * HoursPerDay + 12

\* Date.now() / new Date(), as a Date
DateNow == ClockStart + now \div MsPerHour

\* days since 1970-01-01 of the civil date y-m-d (proleptic Gregorian calendar)
daysFromCivil(y, m, d) ==
    LET yy  == IF m <= 2 THEN y - 1 ELSE y
        era == yy \div 400
        yoe == yy - era * 400
        doy == (153 * (IF m > 2 THEN m - 3 ELSE m + 9) + 2) \div 5 + d - 1
        doe == yoe * 365 + yoe \div 4 - yoe \div 100 + doy
    IN  era * 146097 + doe - 719468

\* the civil date <<y, m, d>> of a day since 1970-01-01
civilFromDays(days) ==
    LET z   == days + 719468
        era == z \div 146097
        doe == z - era * 146097
        yoe == (doe - doe \div 1460 + doe \div 36524 - doe \div 146096) \div 365
        doy == doe - (365 * yoe + yoe \div 4 - yoe \div 100)
        mp  == (5 * doy + 2) \div 153
        d   == doy - (153 * mp + 2) \div 5 + 1
        m   == IF mp < 10 THEN mp + 3 ELSE mp - 9
    IN  <<yoe + era * 400 + (IF m <= 2 THEN 1 ELSE 0), m, d>>

\* the decimal digits of n, padded with zeros to width w
digitsOf(n, w) == [k \in 1..w |-> Digits[((n \div Pow10(w - k)) % 10) + 1]]

\* d.toISOString().slice(0, 10)
isoDate(d) ==
    LET c == civilFromDays(d \div HoursPerDay)
    IN  digitsOf(c[1], 4) \o <<"-">> \o digitsOf(c[2], 2) \o <<"-">> \o digitsOf(c[3], 2)

\* the week start (Monday, UTC) of the day of d, as text
isoWeekStart(d) ==
    LET date == d \div HoursPerDay
        day  == (date + 4) % 7
        diff == (day + 6) % 7
    IN  isoDate((date - diff) * HoursPerDay)

\* a Date that holds no time value
InvalidDate == [nan |-> TRUE, time |-> 0]

\* days in month m of year y
daysInMonth(y, m) ==
    IF m = 2 THEN (IF (y % 4 = 0 /\ y % 100 # 0) \/ y % 400 = 0 THEN 29 ELSE 28)
    ELSE IF m \in {4, 6, 9, 11} THEN 30 ELSE 31

\* new Date(text) for the forms the store returns: YYYY-MM-DD (midnight UTC) and
\* YYYY-MM-DDTHH:00:00Z
newDate(text) ==
    LET y    == DigitsToInt(slice(text, 0, 4))
        m    == DigitsToInt(slice(text, 5, 7))
        d    == DigitsToInt(slice(text, 8, 10))
        h    == IF Len(text) = 10 THEN 0 ELSE DigitsToInt(slice(text, 11, 13))
        date == /\ Len(text) >= 10
                /\ AllDigits(slice(text, 0, 4)) /\ text[5] = "-"
                /\ AllDigits(slice(text, 5, 7)) /\ text[8] = "-"
                /\ AllDigits(slice(text, 8, 10))
                /\ m \in 1..12 /\ d \in 1..daysInMonth(y, m)
        hour == \/ Len(text) = 10
                \/ /\ Len(text) = 20 /\ text[11] = "T" /\ AllDigits(slice(text, 11, 13))
                   /\ slice(text, 13, 20) = <<":", "0", "0", ":", "0", "0", "Z">>
                   /\ h \in 0..23
    IN  IF date /\ hour
        THEN [nan |-> FALSE, time |-> daysFromCivil(y, m, d) * HoursPerDay + h]
        ELSE InvalidDate

\* the characters of dates and timestamps in the order of their UTF-16 code units
CodeUnits == <<"-">> \o Digits \o <<":", "T", "Z">>

\* a < b by UTF-16 code units, as Array.prototype.sort() and the store compare text
strLess(a, b) ==
    LET n     == IF Len(a) < Len(b) THEN Len(a) ELSE Len(b)
        diffs == {i \in 1..n : a[i] # b[i]}
    IN  IF diffs = {} THEN Len(a) < Len(b)
        ELSE IndexIn(a[Min(diffs)], CodeUnits) < IndexIn(b[Min(diffs)], CodeUnits)

\* Object.keys(o).sort() for a set of keys
sortedKeys(keys) ==
    LET ranked == {<<Cardinality({t \in keys : strLess(t, s)}) + 1, s>> : s \in keys}
    IN  [k \in 1..Cardinality(keys) |-> (CHOOSE p \in ranked : p[1] = k)[2]]

\* the value a JSON number or null of the store stands for, in cents
cents(v) == v.num * Pow10(2 - v.exp)

\* safeNum(v): Number(v) when finite, else 0; Number(null) is 0
safeNum(v) == IF v.nan THEN 0 ELSE cents(v)

(***************************************************************************)
(* The callers, the server configurations and the tables sampled.          *)
(***************************************************************************)
\* the user a bearer token of the samples stands for; the store's row level security
\* lets a request see the rows of that user
userOf(token) == IF token = <<"a">> THEN "alice" ELSE IF token = <<"b">> THEN "bob" ELSE "nobody"

\* the credential carrying parts of the sampled requests: the Authorization header and
\* the sb-access-token cookie
DashCredentials ==
    { [authorization |-> <<"B", "e", "a", "r", "e", "r", " ", "a">>, cookie |-> <<>>],
      [authorization |-> <<"b">>, cookie |-> <<"a">>],
      [authorization |-> <<>>, cookie |-> <<"{", "\"", "a", "c", "c", "e", "s", "s", "_", "t", "o", "k", "e", "n", "\"", ":", "\"", "a", "\"", "}">>],
      [authorization |-> <<"B", "e", "a", "r", "e", "r", " ">>, cookie |-> <<"{">>],
      [authorization |-> <<>>, cookie |-> <<>>] }

\* NEXT_PUBLIC_SUPABASE_URL and NEXT_PUBLIC_SUPABASE_ANON_KEY of the sampled servers
DashEnvironments ==
    { [NEXT_PUBLIC_SUPABASE_URL |-> <<"u">>, NEXT_PUBLIC_SUPABASE_ANON_KEY |-> <<"k">>],
      [NEXT_PUBLIC_SUPABASE_URL |-> <<>>, NEXT_PUBLIC_SUPABASE_ANON_KEY |-> <<"k">>],
      [NEXT_PUBLIC_SUPABASE_URL |-> <<"u">>, NEXT_PUBLIC_SUPABASE_ANON_KEY |-> <<>>] }
\* the transactions table of the sampled stores: alice has a monthly payee, bob has
\* no row; bob has rows, alice has none
DashTransactions ==
    { { [transaction_id |-> 1, amount |-> [nan |-> FALSE, num |-> -1599, exp |-> 2],
       date_parsed |-> <<"2", "0", "2", "5", "-", "0", "7", "-", "1", "1">>,
       created_at |-> <<"2", "0", "2", "5", "-", "0", "7", "-", "1", "2", "T", "1", "0", ":", "0", "0", ":", "0", "0", "Z">>,
       category |-> <<"S", "u", "b", "s">>, payee_clean |-> <<"N", "e", "t", "f", "l", "i", "x">>, payee_norm |-> <<"n", "e", "t", "f", "l", "i", "x">>,
       description |-> <<"N", "E", "T", "F", "L", "I", "X">>, owner |-> "alice"],
        [transaction_id |-> 2, amount |-> [nan |-> FALSE, num |-> -1599, exp |-> 2],
       date_parsed |-> <<"2", "0", "2", "5", "-", "0", "8", "-", "1", "0">>,
       created_at |-> <<"2", "0", "2", "5", "-", "0", "8", "-", "1", "1", "T", "1", "0", ":", "0", "0", ":", "0", "0", "Z">>,
       category |-> <<"S", "u", "b", "s">>, payee_clean |-> <<"N", "e", "t", "f", "l", "i", "x">>, payee_norm |-> <<"n", "e", "t", "f", "l", "i", "x">>,
       description |-> <<"N", "E", "T", "F", "L", "I", "X">>, owner |-> "alice"],
        [transaction_id |-> 3, amount |-> [nan |-> FALSE, num |-> -1599, exp |-> 2],
       date_parsed |-> <<"2", "0", "2", "5", "-", "0", "9", "-", "0", "9">>,
       created_at |-> <<"2", "0", "2", "5", "-", "0", "9", "-", "1", "0", "T", "1", "0", ":", "0", "0", ":", "0", "0", "Z">>,
       category |-> <<"S", "u", "b", "s">>, payee_clean |-> <<"N", "e", "t", "f", "l", "i", "x">>, payee_norm |-> <<"n", "e", "t", "f", "l", "i", "x">>,
       description |-> <<"N", "E", "T", "F", "L", "I", "X">>, owner |-> "alice"],
        [transaction_id |-> 4, amount |-> [nan |-> FALSE, num |-> -60, exp |-> 0],
       date_parsed |-> <<"2", "0", "2", "5", "-", "0", "9", "-", "1", "5">>,
       created_at |-> <<"2", "0", "2", "5", "-", "0", "9", "-", "1", "5", "T", "1", "0", ":", "0", "0", ":", "0", "0", "Z">>,
       category |-> null, payee_clean |-> <<"T", "e", "a">>, payee_norm |-> null,
       description |-> <<"T", "E", "A">>, owner |-> "alice"],
        [transaction_id |-> 5, amount |-> NaN,
       date_parsed |-> null,
       created_at |-> <<"2", "0", "2", "5", "-", "0", "9", "-", "1", "6", "T", "1", "0", ":", "0", "0", ":", "0", "0", "Z">>,
       category |-> null, payee_clean |-> null, payee_norm |-> null,
       description |-> null, owner |-> "alice"] },
      { [transaction_id |-> 6, amount |-> [nan |-> FALSE, num |-> 100, exp |-> 0],
       date_parsed |-> <<"2", "0", "2", "5", "-", "0", "9", "-", "1", "6">>,
       created_at |-> <<"2", "0", "2", "5", "-", "0", "9", "-", "1", "6", "T", "1", "1", ":", "0", "0", ":", "0", "0", "Z">>,
       category |-> <<"I", "n", "c", "o", "m", "e">>, payee_clean |-> <<"S", "a", "l", "a", "r", "y">>, payee_norm |-> <<"s", "a", "l", "a", "r", "y">>,
       description |-> <<"S", "A", "L", "A", "R", "Y">>, owner |-> "bob"],
        [transaction_id |-> 7, amount |-> [nan |-> FALSE, num |-> -5, exp |-> 1],
       date_parsed |-> null,
       created_at |-> null,
       category |-> null, payee_clean |-> null, payee_norm |-> null,
       description |-> <<"X">>, owner |-> "bob"] } }

\* the recurring_summary table of the sampled stores: empty, or one row of alice
RecurringTables ==
    { <<>>,
      << [payee |-> <<"G", "y", "m">>, avg_amount |-> [nan |-> FALSE, num |-> 45, exp |-> 0], frequency |-> null,
          last_date |-> <<"2", "0", "2", "5", "-", "0", "9", "-", "0", "1">>, next_date |-> null, occurrences |-> 0, owner |-> "alice"] >> }

(***************************************************************************)
(* The handler up to its first fetch: token, configuration, cache check.   *)
(***************************************************************************)
\* s.startsWith(prefix)
startsWith(s, prefix) == Len(s) >= Len(prefix) /\ SubSeq(s, 1, Len(prefix)) = prefix

\* JSON.parse(ck) followed by ?.access_token for a cookie of the form
\* {"access_token":"..."}; any other text starting with { makes JSON.parse throw here
jsonAccessToken(ck) ==
    LET open  == <<"{", "\"", "a", "c", "c", "e", "s", "s", "_", "t", "o", "k", "e", "n", "\"", ":", "\"">>
        inner == SubSeq(ck, Len(open) + 1, Len(ck) - 2)
    IN  IF /\ startsWith(ck, open)
           /\ Len(ck) >= Len(open) + 2
           /\ SubSeq(ck, Len(ck) - 1, Len(ck)) = <<"\"", "}">>
           /\ Range(inner) \cap {"\"", "\\"} = {}
        THEN [threw |-> FALSE, access_token |-> inner]
        ELSE [threw |-> TRUE, access_token |-> <<>>]

\* the bearer token of the request: from the Authorization header, else from the
\* sb-access-token cookie; <<>> is null or the empty string, which !token treats alike
tokenOf(cred) ==
    LET authHeader == cred.authorization
        token      == IF startsWith(authHeader, <<"B", "e", "a", "r", "e", "r", " ">>)
                      THEN slice(authHeader, 7, Len(authHeader))
                      ELSE authHeader
        ck         == cred.cookie
    IN  IF token # <<>> \/ ck = <<>> THEN token
        ELSE IF ~startsWith(ck, <<"{">>) THEN ck
        ELSE IF jsonAccessToken(ck).threw THEN token
        ELSE jsonAccessToken(ck).access_token

\* 5 * 60 * 1000: how long a stored payload is served, in ms
CACHE_TTL_MS == 5 * 60 * 1000

\* CACHE && Date.now() - CACHE.ts < CACHE_TTL_MS
cacheFresh(cache, at) == cache # <<>> /\ at - cache[1].ts < CACHE_TTL_MS

\* !SUPABASE_URL || !SUPABASE_ANON
configMissing(e) == e.NEXT_PUBLIC_SUPABASE_URL = <<>> \/ e.NEXT_PUBLIC_SUPABASE_ANON_KEY = <<>>

\* the locals of the handler when it reaches its first fetch, or its early response
arrive(e, cred, cache, at) ==
    LET token == tokenOf(cred)
        keyed == [IdleDash EXCEPT !.token = token]
    IN  IF token = <<>>
        THEN [IdleDash EXCEPT !.pc = "done",
                              !.resp = DashError(401, "Missing Authorization Bearer token")]
        ELSE IF configMissing(e)
        THEN [keyed EXCEPT !.pc = "done",
                           !.resp = DashError(500, "Missing Supabase configuration on server")]
        ELSE IF cacheFresh(cache, at)
        THEN [keyed EXCEPT !.pc = "done",
                           !.resp = [status |-> 200, error |-> "",
                                     payload |-> [cache[1].payload EXCEPT !.cached = TRUE]],
                           !.servedBy = cache[1].by,
                           !.servedAge = at - cache[1].ts]
        ELSE [keyed EXCEPT !.pc = "transactions", !.stale = cache # <<>>]

(***************************************************************************)
(* The fetches and what the handler computes from them.                    *)
(***************************************************************************)
\* limit=5000 of the transactions fetch
TransactionsLimit == 5000

\* limit=100 of the recurring_summary fetch
RecurringLimit == 100

\* limit=1000 of the payee_mapping fetch
MappingsLimit == 1000

\* a value the || operator skips: null or the empty string
falsy(v) == v = null \/ v = <<>>

\* a || b || c
firstTruthy(a, b, c) == IF ~falsy(a) THEN a ELSE IF ~falsy(b) THEN b ELSE c

\* a sorts before b under order=date_parsed.desc,created_at.desc (nulls first)
rowBefore(a, b) ==
    LET descBefore(x, y) == (x = null /\ y # null) \/ (x # null /\ y # null /\ strLess(y, x))
    IN  \/ descBefore(a.date_parsed, b.date_parsed)
        \/ a.date_parsed = b.date_parsed /\ descBefore(a.created_at, b.created_at)

\* the rows of the transactions table the store returns to the bearer of token: those
\* row level security lets the user see, in the order asked for
fetchTransactions(table, token) ==
    LET seen == {row \in table : row.owner = userOf(token)}
        list == [k \in 1..Cardinality(seen) |->
                    CHOOSE row \in seen : Cardinality({x \in seen : rowBefore(x, row)}) = k - 1]
    IN  slice(list, 0, TransactionsLimit)

\* the rows of recurring_summary the store returns to the bearer of token
fetchRecurring(table, token) ==
    slice(SelectSeq(table, LAMBDA row : row.owner = userOf(token)), 0, RecurringLimit)

\* the rows of payee_mapping the store returns
fetchMappings(table) == slice(table, 0, MappingsLimit)

\* rows.map(..).filter(t => t.date && ..): a row without date_parsed and created_at has
\* date null and is dropped; safeNum always gives a number
normalizeRows(rows) ==
    LET dated == SelectSeq(rows, LAMBDA r : ~falsy(r.date_parsed) \/ ~falsy(r.created_at))
    IN  [k \in 1..Len(dated) |->
            LET r == dated[k]
            IN  [id       |-> r.transaction_id,
                 amount   |-> safeNum(r.amount),
                 date     |-> newDate(IF ~falsy(r.date_parsed) THEN r.date_parsed ELSE r.created_at),
                 category |-> IF falsy(r.category) THEN Uncategorized ELSE r.category,
                 payee    |-> firstTruthy(r.payee_norm, r.payee_clean, firstTruthy(r.description, null, Unknown)),
                 rawPayee |-> firstTruthy(r.payee_clean, r.payee_norm, firstTruthy(r.description, null, Unknown))]]

RECURSIVE sumSeq(_)
sumSeq(s) == IF s = <<>> THEN 0 ELSE Head(s) + sumSeq(Tail(s))

\* the payload of a caller without transactions
EmptyPayload(at) ==
    [cached |-> FALSE, generated_at |-> at, tiles |-> [currentBalance |-> 0],
     recurring |-> <<>>, upcomingBills |-> <<>>,
     charts |-> [weeklySeries26 |-> <<>>], unmappedPayees |-> <<>>]

\* weeks of the weekly series
Weeks == 26

\* the weekly series: a bucket per week start of the 26 weeks ending now, each holding
\* the spend (absolute value of the negative amounts) of its week, keys sorted as text
weeklySeries26(txs, d) ==
    LET keys == {isoWeekStart(d - i * 7 * HoursPerDay) : i \in 0..(Weeks - 1)}
        weeklyBuckets ==
            [k \in keys |->
                sumSeq([j \in 1..Len(txs) |->
                    IF isoWeekStart(txs[j].date.time) = k /\ txs[j].amount < 0
                    THEN 0 - txs[j].amount ELSE 0])]
        weeklyKeys == sortedKeys(keys)
    IN  [k \in 1..Len(weeklyKeys) |->
            [weekStart |-> weeklyKeys[k], amount |-> weeklyBuckets[weeklyKeys[k]]]]

\* the values of s without repetition, in the order of their first occurrence: the key
\* order of a Map filled in the order of s
firstSeen(s) ==
    LET at == SelectSeq([i \in 1..Len(s) |-> i], LAMBDA i : \A j \in 1..(i - 1) : s[j] # s[i])
    IN  [k \in 1..Len(at) |-> s[at[k]]]

\* s sorted with Array.prototype.sort (stable), key[i] being the sort key of s[i],
\* ascending
sortedBy(s, key) ==
    LET pos(i) == Cardinality({j \in 1..Len(s) : key[j] < key[i]})
                      + Cardinality({j \in 1..(i - 1) : key[j] = key[i]}) + 1
    IN  [k \in 1..Len(s) |-> s[CHOOSE i \in 1..Len(s) : pos(i) = k]]

\* Number((n / d).toFixed(2)) of an amount in cents: n / d rounded to a whole cent,
\* halves away from zero
roundDiv(n, d) ==
    IF n >= 0 THEN (2 * n + d) \div (2 * d) ELSE 0 - ((2 * (0 - n) + d) \div (2 * d))

Weekly == <<"w", "e", "e", "k", "l", "y">>

Monthly == <<"m", "o", "n", "t", "h", "l", "y">>

\* the heuristic of one payee group: its entry, or none; gaps are in hours, so
\* avgInterval (in days) is S / (24 m) and the comparisons are multiplied out
heuristicOf(payee, arr) ==
    LET sorted    == sortedBy(arr, [i \in 1..Len(arr) |-> arr[i].date.time])
        m         == Len(sorted) - 1
        intervals == [i \in 1..m |-> sorted[i + 1].date.time - sorted[i].date.time]
        S         == sumSeq(intervals)
        sq        == sumSeq([i \in 1..m |-> (m * intervals[i] - S) * (m * intervals[i] - S)])
        lastDate  == sorted[Len(sorted)].date.time
        rounded   == (2 * S + HoursPerDay * m) \div (2 * HoursPerDay * m)
    IN  IF Len(arr) < 3 THEN <<>>
        ELSE IF /\ S >= 6 * HoursPerDay * m
                /\ S <= 40 * HoursPerDay * m
                /\ sq <= m * m * m * (15 * HoursPerDay) * (15 * HoursPerDay)
        THEN << [payee       |-> payee,
                 avg_amount  |-> roundDiv(sumSeq([i \in 1..Len(sorted) |-> sorted[i].amount]), Len(sorted)),
                 frequency   |-> IF S <= 10 * HoursPerDay * m THEN Weekly ELSE Monthly,
                 last_date   |-> isoDate(lastDate),
                 next_date   |-> isoDate(lastDate + rounded * HoursPerDay),
                 occurrences |-> Len(sorted)] >>
        ELSE <<>>

RECURSIVE concat(_)
concat(lists) == IF lists = <<>> THEN <<>> ELSE Head(lists) \o concat(Tail(lists))

\* a heuristic that groups all the transactions, whatever their date
heuristicsUnwindowed(txs, d) ==
    LET payees == firstSeen([k \in 1..Len(txs) |-> txs[k].payee])
    IN  concat([k \in 1..Len(payees) |->
            heuristicOf(payees[k], SelectSeq(txs, LAMBDA t : t.payee = payees[k]))])

\* the recurring entries the heuristic finds in the transactions of the last 90 days
heuristics(txs, d) ==
    LET recent90 == d - 90 * HoursPerDay
        recent   == SelectSeq(txs, LAMBDA t : t.date.time >= recent90)
        payees   == firstSeen([k \in 1..Len(recent) |-> recent[k].payee])
    IN  concat([k \in 1..Len(payees) |->
            heuristicOf(payees[k], SelectSeq(recent, LAMBDA t : t.payee = payees[k]))])

\* recRows.map(..): the rows of recurring_summary in the shape of the response; a
\* missing occurrences is 0 here, which || skips like null
mappedRecurring(recRows) ==
    [k \in 1..Len(recRows) |->
        LET r == recRows[k]
        IN  [payee       |-> IF falsy(r.payee) THEN Unknown ELSE r.payee,
             avg_amount  |-> safeNum(r.avg_amount),
             frequency   |-> IF falsy(r.frequency) THEN Monthly ELSE r.frequency,
             last_date   |-> IF falsy(r.last_date) THEN null ELSE r.last_date,
             next_date   |-> IF falsy(r.next_date) THEN null ELSE r.next_date,
             occurrences |-> IF r.occurrences = 0 THEN 1 ELSE r.occurrences]]

\* a recurring list that adds the heuristic entries to the rows of recurring_summary
recurringMerged(recRows, txs, d) ==
    mappedRecurring(recRows) \o heuristics(txs, d)

\* recurringData: the rows of recurring_summary when there are any, else the heuristic
recurringOf(recRows, txs, d) ==
    IF Len(recRows) > 0 THEN mappedRecurring(recRows) ELSE heuristics(txs, d)

\* (recurringData || []).map(r => ({payee, amount, next_date}))
upcomingBillsOf(recurringData) ==
    [k \in 1..Len(recurringData) |->
        [payee     |-> recurringData[k].payee,
         amount    |-> recurringData[k].avg_amount,
         next_date |-> recurringData[k].next_date]]

\* new Set(mappings.map(m => (m.normalized || "").trim()))
mappedSetOf(mappings) ==
    {trim(IF falsy(mappings[k].normalized) THEN <<>> ELSE mappings[k].normalized) : k \in 1..Len(mappings)}

\* the raw payees no mapping names, most frequent first, at most 10
unmappedPayeesOf(txs, mappedSet) ==
    LET keyOf(t) == trim(IF trim(t.rawPayee) # <<>> THEN trim(t.rawPayee) ELSE t.payee)
        keys     == SelectSeq([k \in 1..Len(txs) |-> keyOf(txs[k])],
                              LAMBDA k : k # <<>>)
        rawCount == [k \in Range(keys) |-> Cardinality({i \in 1..Len(keys) : keys[i] = k})]
        kept     == SelectSeq(firstSeen(keys), LAMBDA k : k \notin mappedSet)
    IN  slice(sortedBy(kept, [i \in 1..Len(kept) |-> 0 - rawCount[kept[i]]]), 0, 10)

\* the names line 1037 can resolve: the declarations of the module and of the handler
\* (the date of isoWeekStart is local to that function), and the globals it uses
Declared ==
    {"CACHE", "CACHE_TTL_MS", "SUPABASE_URL", "SUPABASE_ANON", "isoDate", "isoWeekStart",
     "safeNum", "handler", "req", "res", "authHeader", "token", "baseUrl", "restFetch",
     "rows", "transactions", "currentBalance", "now", "weeklyBuckets", "weeklyKeys",
     "weeklySeries26", "weeklyAvgSpend26", "ms30", "since", "monthlyNetFlow", "catMap",
     "payeeMap", "topCategories", "topPayees", "recurringData", "upcomingBills",
     "recurringSparklines", "mappedSet", "rawCount", "unmappedPayees", "categoryDonut",
     "topPayeesBar", "sevenDaysAgo", "Date", "Number", "Math", "Map", "Set", "Array"}

\* sevenDaysAgo.setDate(now.get-date ? .. : ..): the condition is now.get - date, and
\* reading a name that is not declared throws a ReferenceError
sevenDaysAgoThrows == "date" \notin Declared

(***************************************************************************)
(* The steps of the dashboard handler: one per await.                      *)
(***************************************************************************)
\* the payload the handler builds at its end
payloadOf(rec, at) ==
    [cached         |-> FALSE,
     generated_at   |-> at,
     tiles          |-> [currentBalance |->
                            sumSeq([k \in 1..Len(rec.transactions) |-> rec.transactions[k].amount])],
     recurring      |-> rec.recurringData,
     upcomingBills  |-> upcomingBillsOf(rec.recurringData),
     charts         |-> [weeklySeries26 |-> rec.weeklySeries26],
     unmappedPayees |-> rec.unmappedPayees]

\* CACHE = { ts: Date.now(), payload }; by is bookkeeping of the model, the request
\* that computed the payload
cacheEntry(at, payload, r) == <<[ts |-> at, payload |-> payload, by |-> r]>>

\* res.status(200).json(payload)
DashOk(payload) == [status |-> 200, error |-> "", payload |-> payload]

\* the outer catch
InternalError == DashError(500, "internal_error")

\* a request is received: token, configuration and the cache check
Arrive(r) ==
    /\ dash[r].pc = "idle"
    /\ \A q \in Requests : q < r => dash[q].pc # "idle"
    /\ \E cred \in DashCredentials :
           dash' = [dash EXCEPT ![r] = arrive(env, cred, CACHE, now)]
    /\ UNCHANGED <<call, CACHE, recurring_summary, env, staging_import, transactions, tx_id_seq,
                   payee_mapping, now, storeErrors, req>>

\* from the rows of the transactions fetch (none when it failed) to the next fetch:
\* normalize, the short-circuit for no transactions, the weekly series
transactionsFetched(r, rows, failed) ==
    LET rec == [dash[r] EXCEPT !.failed = @ \cup failed]
        txs == normalizeRows(rows)
    IN  IF Len(txs) = 0
        THEN /\ CACHE' = cacheEntry(now, EmptyPayload(now), r)
             /\ dash' = [dash EXCEPT ![r] =
                            [rec EXCEPT !.pc = "done", !.resp = DashOk(EmptyPayload(now))]]
        ELSE IF \E k \in 1..Len(txs) : txs[k].date.nan
        THEN /\ CACHE' = CACHE
             /\ dash' = [dash EXCEPT ![r] = [rec EXCEPT !.pc = "done", !.resp = InternalError]]
        ELSE /\ CACHE' = CACHE
             /\ dash' = [dash EXCEPT ![r] =
                            [rec EXCEPT !.pc = "recurring",
                                        !.transactions = txs,
                                        !.weeklySeries26 = weeklySeries26(txs, DateNow)]]

FetchTransactions(r) ==
    /\ dash[r].pc = "transactions"
    /\ transactionsFetched(r, fetchTransactions(transactions, dash[r].token), {})
    /\ UNCHANGED <<call, recurring_summary, env, staging_import, transactions, tx_id_seq,
                   payee_mapping, now, storeErrors, req>>

\* restFetch throws and the handler goes on with no rows
FetchTransactionsError(r) ==
    /\ dash[r].pc = "transactions"
    /\ CanFail
    /\ storeErrors' = storeErrors + 1
    /\ transactionsFetched(r, <<>>, {"transactions"})
    /\ UNCHANGED <<call, recurring_summary, env, staging_import, transactions, tx_id_seq,
                   payee_mapping, now, req>>

\* from the rows of the recurring_summary fetch (none when it failed) to the next fetch
recurringFetched(r, recRows, failed) ==
    dash' = [dash EXCEPT ![r] =
                [@ EXCEPT !.pc = "mappings",
                          !.failed = @ \cup failed,
                          !.recRows = recRows,
                          !.recurringData = recurringOf(recRows, dash[r].transactions, DateNow)]]

FetchRecurring(r) ==
    /\ dash[r].pc = "recurring"
    /\ recurringFetched(r, fetchRecurring(recurring_summary, dash[r].token), {})
    /\ UNCHANGED <<call, CACHE, recurring_summary, env, staging_import, transactions, tx_id_seq,
                   payee_mapping, now, storeErrors, req>>

FetchRecurringError(r) ==
    /\ dash[r].pc = "recurring"
    /\ CanFail
    /\ storeErrors' = storeErrors + 1
    /\ recurringFetched(r, <<>>, {"recurring_summary"})
    /\ UNCHANGED <<call, CACHE, recurring_summary, env, staging_import, transactions, tx_id_seq,
                   payee_mapping, now, req>>

\* from the rows of the payee_mapping fetch (none when it failed) to the response:
\* the unmapped payees, the savings scenarios, the payload and the cache
mappingsFetched(r, mappings, failed) ==
    LET rec == [dash[r] EXCEPT
                   !.failed = @ \cup failed,
                   !.unmappedPayees = unmappedPayeesOf(dash[r].transactions, mappedSetOf(mappings))]
    IN  IF sevenDaysAgoThrows
        THEN /\ CACHE' = CACHE
             /\ dash' = [dash EXCEPT ![r] = [rec EXCEPT !.pc = "done", !.resp = InternalError]]
        ELSE /\ CACHE' = cacheEntry(now, payloadOf(rec, now), r)
             /\ dash' = [dash EXCEPT ![r] =
                            [rec EXCEPT !.pc = "done", !.resp = DashOk(payloadOf(rec, now))]]

FetchMappings(r) ==
    /\ dash[r].pc = "mappings"
    /\ mappingsFetched(r, fetchMappings(payee_mapping), {})
    /\ UNCHANGED <<call, recurring_summary, env, staging_import, transactions, tx_id_seq,
                   payee_mapping, now, storeErrors, req>>

FetchMappingsError(r) ==
    /\ dash[r].pc = "mappings"
    /\ CanFail
    /\ storeErrors' = storeErrors + 1
    /\ mappingsFetched(r, <<>>, {"payee_mapping"})
    /\ UNCHANGED <<call, recurring_summary, env, staging_import, transactions, tx_id_seq,
                   payee_mapping, now, req>>

\* the clock advance of one step of the dashboard model: half the time to live
DashTickMs == CACHE_TTL_MS \div 2

\* time passes
TickDash ==
    /\ now < MaxTicks * DashTickMs
    /\ now' = now + DashTickMs
    /\ UNCHANGED <<call, dashboard, env, staging_import, transactions, tx_id_seq, payee_mapping,
                   storeErrors, req>>

\* a server with a store of the samples, an empty cache and no request yet
InitDash ==
    /\ call = NoCall
    /\ CACHE = <<>>
    /\ recurring_summary \in RecurringTables
    /\ dash = [r \in Requests |-> IdleDash]
    /\ env \in DashEnvironments
    /\ staging_import = <<>>
    /\ transactions \in DashTransactions
    /\ tx_id_seq = 0
    /\ payee_mapping \in MappingTables
    /\ now = 0
    /\ storeErrors = 0
    /\ req = [r \in Requests |-> IdleRequest]

NextDash ==
    \/ \E r \in Requests : Arrive(r)
    \/ \E r \in Requests : FetchTransactions(r)
    \/ \E r \in Requests : FetchTransactionsError(r)
    \/ \E r \in Requests : FetchRecurring(r)
    \/ \E r \in Requests : FetchRecurringError(r)
    \/ \E r \in Requests : FetchMappings(r)
    \/ \E r \in Requests : FetchMappingsError(r)
    \/ TickDash

\* requests served by the dashboard summary handler
SpecDash == InitDash /\ [][NextDash]_vars

(***************************************************************************)
(* Properties of the dashboard summary handler.                            *)
(***************************************************************************)
DashDone(r) == dash[r].pc = "done"

\* C13: a response served from the cache was computed for the caller who receives it:
\* the request that computed the stored payload had the same user as the request served
C13_CachedPayloadOfSameCaller ==
    \A r \in Requests :
        dash[r].servedBy # 0 =>
            userOf(dash[r].token) = userOf(dash[dash[r].servedBy].token)

\* C14: a 200 response has cached:true exactly when it serves a stored payload, and
\* then the payload is less than 5 minutes old; and a request with token and
\* configuration that finds a stored payload 5 minutes old or more goes to the store,
\* and when it answers it answers 200 with cached:false and has replaced the entry
C14_CachedExactlyWhenFresh ==
    [][\A r \in Requests :
          /\ dash'[r].resp.status = 200 =>
                 /\ dash'[r].resp.payload.cached <=> dash'[r].servedBy # 0
                 /\ dash'[r].servedBy # 0 =>
                        dash'[r].servedAge >= 0 /\ dash'[r].servedAge < CACHE_TTL_MS
          /\ (/\ dash[r].pc = "idle" /\ dash'[r].pc # "idle"
              /\ dash'[r].token # <<>> /\ ~configMissing(env)
              /\ CACHE # <<>> /\ now - CACHE[1].ts >= CACHE_TTL_MS)
                 => dash'[r].pc = "transactions" /\ dash'[r].stale
          /\ (dash[r].pc # "done" /\ dash'[r].pc = "done" /\ dash'[r].stale)
                 => /\ dash'[r].resp.status = 200
                    /\ ~dash'[r].resp.payload.cached
                    /\ CACHE' = cacheEntry(now, dash'[r].resp.payload, r)]_vars

\* C15: a request whose transactions fetch failed does not answer 200
C15_TransactionsFailureIsFatal ==
    \A r \in Requests :
        DashDone(r) /\ "transactions" \in dash[r].failed => dash[r].resp.status # 200

\* C16: a request whose transactions fetch succeeded and whose recurring_summary or
\* payee_mapping fetch failed answers 200, with the heuristic's entries as recurring
\* list in the first case and every raw payee counted as unmapped in the second
C16_SecondaryFailureTolerated ==
    \A r \in Requests :
        DashDone(r) /\ dash[r].failed # {} /\ "transactions" \notin dash[r].failed =>
            /\ dash[r].resp.status = 200
            /\ "recurring_summary" \in dash[r].failed =>
                   dash[r].resp.payload.recurring = heuristics(dash[r].transactions, DateNow)
            /\ "payee_mapping" \in dash[r].failed =>
                   dash[r].resp.payload.unmappedPayees = unmappedPayeesOf(dash[r].transactions, {})

\* request r has built its recurring list
RecurringBuilt(r) == dash[r].pc \in {"mappings", "done"} /\ dash[r].transactions # <<>>

\* C17: the recurring list a request builds has one source: when the fetch of
\* recurring_summary returned rows it is exactly these rows, mapped, and holds no entry
\* of the heuristic; otherwise it is exactly the list of the heuristic
C17_RecurringFromOneSource ==
    \A r \in Requests :
        RecurringBuilt(r) =>
            LET summary == mappedRecurring(fetchRecurring(recurring_summary, dash[r].token))
                heur    == heuristics(dash[r].transactions, DateNow)
                fetched == "recurring_summary" \notin dash[r].failed /\ summary # <<>>
            IN  /\ fetched => dash[r].recurringData = summary
                /\ fetched => \A k \in 1..Len(dash[r].recurringData) :
                                  dash[r].recurringData[k] \notin Range(heur)
                /\ ~fetched => dash[r].recurringData = heur
                /\ dash[r].resp.status = 200 /\ dash[r].servedBy = 0 =>
                       dash[r].resp.payload.recurring = dash[r].recurringData

\* a request built its list from the rows of recurring_summary although the heuristic
\* finds a recurring payee in its transactions, and another built it from the heuristic
C17_Witness ==
    \E r \in Requests, q \in Requests :
        /\ RecurringBuilt(r)
        /\ dash[r].recRows # <<>>
        /\ heuristics(dash[r].transactions, DateNow) # <<>>
        /\ dash[r].recurringData = mappedRecurring(dash[r].recRows)
        /\ RecurringBuilt(q)
        /\ dash[q].recRows = <<>>
        /\ dash[q].recurringData # <<>>

\* C18: the weekly series of every 200 response has exactly 26 entries, the Mondays of
\* the 26 weeks ending with the current week in ascending order, with amounts >= 0
C18_WeeklySeriesHas26Entries ==
    \A r \in Requests :
        dash[r].resp.status = 200 =>
            LET series == dash[r].resp.payload.charts.weeklySeries26
            IN  /\ Len(series) = Weeks
                /\ \A k \in 1..Len(series) :
                       /\ series[k].weekStart
                              = isoWeekStart(DateNow - (Weeks - k) * 7 * HoursPerDay)
                       /\ series[k].amount >= 0

\* C30: the stored payload was computed by a request whose transactions fetch
\* succeeded, and so was every payload served from the cache
C30_CachedAfterSuccessfulFetch ==
    /\ CACHE # <<>> => "transactions" \notin dash[CACHE[1].by].failed
    /\ \A r \in Requests :
           dash[r].servedBy # 0 => "transactions" \notin dash[dash[r].servedBy].failed

(***************************************************************************)
(* Calls of single functions: the arguments are drawn from samples and the *)
(* function is applied to them as the handlers apply it.                   *)
(***************************************************************************)
\* lines of a statement in one call of findHeader or of the row parsing loop
MaxLines == 3

\* a blank line
LineBlank ==
    <<" ", " ", "\t">>

\* a line of the preamble
LineTitle ==
    <<"M", "y", " ", "C", "a", "r", "d", " ", "1", "2", "3", "4">>

\* the header as the bank writes it
LineHeader ==
    <<"T", "r", "a", "n", "s", "a", "c", "t", "i", "o", "n", " ", "T", "y", "p", "e", ",", "D",
    "a", "t", "e", " ", "P", "o", "s", "t", "e", "d", ",", "T", "r", "a", "n", "s", "a", "c",
    "t", "i", "o", "n", " ", "A", "m", "o", "u", "n", "t", ",", "D", "e", "s", "c", "r", "i",
    "p", "t", "i", "o", "n">>

\* the four names in another order and case, with a fifth column, tab separated
LineHeaderPermuted ==
    <<" ", "d", "e", "s", "c", "r", "i", "p", "t", "i", "o", "n", "\t", "P", "o", "s", "t", "e",
    "d", " ", "O", "n", "\t", "D", "A", "T", "E", " ", " ", "P", "O", "S", "T", "E", "D", "\t",
    " ", "t", "r", "a", "n", "s", "a", "c", "t", "i", "o", "n", " ", "a", "m", "o", "u", "n",
    "t", " ", "\t", "T", "r", "a", "n", "s", "a", "c", "t", "i", "o", "n", " ", "T", "y", "p",
    "e">>

\* the four names quoted, with a quoted column that holds a comma
LineHeaderQuoted ==
    <<"\"", "T", "r", "a", "n", "s", "a", "c", "t", "i", "o", "n", " ", "T", "y", "p", "e",
    "\"", ",", "\"", "D", "a", "t", "e", " ", "P", "o", "s", "t", "e", "d", "\"", ",", "\"",
    "B", "a", "l", "a", "n", "c", "e", ",", " ", "C", "A", "D", "\"", ",", "\"", "T", "r", "a",
    "n", "s", "a", "c", "t", "i", "o", "n", " ", "A", "m", "o", "u", "n", "t", "\"", ",", "\"",
    "D", "e", "s", "c", "r", "i", "p", "t", "i", "o", "n", "\"">>

\* a header without the transaction amount column
LineHeaderNoAmount ==
    <<"T", "r", "a", "n", "s", "a", "c", "t", "i", "o", "n", " ", "T", "y", "p", "e", ",", "D",
    "a", "t", "e", " ", "P", "o", "s", "t", "e", "d", ",", "A", "m", "o", "u", "n", "t", ",",
    "D", "e", "s", "c", "r", "i", "p", "t", "i", "o", "n">>

\* a data line
LineData ==
    <<"D", "E", "B", "I", "T", ",", "2", "0", "2", "5", "0", "7", "1", "1", ",", "-", "6", "0",
    ".", "0", "0", ",", "T", "E", "A">>

\* the sampled lines
Lines ==
    {LineBlank, LineTitle, LineHeader, LineHeaderPermuted, LineHeaderQuoted,
     LineHeaderNoAmount, LineData}

\* the sampled lines that hold the four required names
HeaderLines == {LineHeader, LineHeaderPermuted, LineHeaderQuoted}

\* the sequences of at most n values of S
SeqsUpTo(S, n) == UNION {[1..k -> S] : k \in 0..n}

\* the result of a call that has not returned
NoResult == <<>>

\* the lists of lines a call of findHeader is given
LineLists == SeqsUpTo(Lines, MaxLines)

\* findHeader(lines) is called
CallFindHeader ==
    /\ call.fn = "findHeader" /\ ~call.done
    /\ call' = [call EXCEPT !.done = TRUE, !.result = findHeader(call.lines)]
    /\ UNCHANGED <<dashboard, env, staging_import, transactions, tx_id_seq, payee_mapping,
                   now, storeErrors, req>>

\* a data line without transaction type
RowNoType ==
    <<" ", ",", "2", "0", "2", "5", "0", "7", "1", "2", ",", "-", "5", ",", "G", "A", "S">>

\* a data line without date
RowNoDate ==
    <<"D", "E", "B", "I", "T", ",", ",", "-", "5", ",", "G", "A", "S">>

\* a data line without amount
RowNoAmount ==
    <<"D", "E", "B", "I", "T", ",", "2", "0", "2", "5", "0", "7", "1", "3", ",", " ", ",", "G",
    "A", "S">>

\* a data line with two fields after the description
RowExtra ==
    <<"c", "r", "e", "d", "i", "t", ",", " ", "0", "7", "/", "1", "5", "/", "2", "0", "2", "5",
    " ", ",", "\"", "$", "1", ",", "2", "3", "4", ".", "5", "6", "\"", ",", "P", "A", "Y", ",",
    "e", "x", "t", "r", "a", ",", " ", "m", "o", "r", "e">>

\* a data line that ends before the description
RowShort ==
    <<"D", "E", "B", "I", "T", ",", "2", "0", "2", "5", "0", "7", "1", "6", ",", "-", "5">>

\* the sampled lines after the header
DataLines == {LineBlank, LineData, RowNoType, RowNoDate, RowNoAmount, RowExtra, RowShort}

\* the row a sampled line stands for under the header LineHeader, or none: what the
\* statement says, written down by hand
ExpectedRow(line) ==
    IF line = LineData
    THEN << [date_raw |-> <<"2", "0", "2", "5", "0", "7", "1", "1">>, transaction_type |-> <<"D", "E", "B", "I", "T">>,
               amount_raw |-> <<"-", "6", "0", ".", "0", "0">>,
               description |-> <<"T", "E", "A">>, processed |-> FALSE] >>
    ELSE IF line = RowExtra
    THEN << [date_raw |-> <<"0", "7", "/", "1", "5", "/", "2", "0", "2", "5">>, transaction_type |-> <<"C", "R", "E", "D", "I", "T">>,
               amount_raw |-> <<"$", "1", ",", "2", "3", "4", ".", "5", "6">>,
               description |-> <<"P", "A", "Y", " ", "e", "x", "t", "r", "a", " ", "m", "o", "r", "e">>, processed |-> FALSE] >>
    ELSE IF line = RowShort
    THEN << [date_raw |-> <<"2", "0", "2", "5", "0", "7", "1", "6">>, transaction_type |-> <<"D", "E", "B", "I", "T">>,
               amount_raw |-> <<"-", "5">>,
               description |-> <<"U", "n", "k", "n", "o", "w", "n">>, processed |-> FALSE] >>
    ELSE <<>>

\* the text of a statement: each line followed by a line feed
contentOfLines(lines) == concat([k \in 1..Len(lines) |-> lines[k] \o <<"\n">>])

\* the lists of lines after the header in a call of the row parsing loop
DataLists == SeqsUpTo(DataLines, MaxLines)

\* POST parses body.content: header detection and the row parsing loop
CallParseContent ==
    /\ call.fn = "parseContent" /\ ~call.done
    /\ call' = [call EXCEPT !.done = TRUE, !.result = parseContent(call.content)]
    /\ UNCHANGED <<dashboard, env, staging_import, transactions, tx_id_seq, payee_mapping,
                   now, storeErrors, req>>

\* mappings in one call of applyMapping
MaxMappings == 2

\* the sampled descriptions
DescTea ==
    <<"H", "o", "t", " ", "T", "e", "a">>

DescGas ==
    <<"G", "A", "S", " ", "B", "A", "R", " ", "1", "2">>

\* a pattern in lower case
MapTea ==
    [pattern |-> <<"t", "e", "a">>,
     normalized |-> <<"T", "e", "a">>,
     category |-> <<"F", "o", "o", "d">>]

\* a pattern with white space around it, without a payee
MapHot ==
    [pattern |-> <<" ", "H", "O", "T", " ", "T", " ">>,
     normalized |-> <<>>,
     category |-> <<"D", "r", "i", "n", "k", "s">>]

\* a blank pattern
MapBlank ==
    [pattern |-> <<" ">>,
     normalized |-> <<"A", "n", "y", "t", "h", "i", "n", "g">>,
     category |-> <<"A", "n", "y">>]

\* a mapping without a category
MapGas ==
    [pattern |-> <<"G", "a", "s", " ", "B", "a", "r">>,
     normalized |-> <<"G", "a", "s">>,
     category |-> <<>>]

\* a pattern that is in none of the descriptions
MapCoffee ==
    [pattern |-> <<"c", "o", "f", "f", "e", "e">>,
     normalized |-> <<"C", "o", "f", "f", "e", "e">>,
     category |-> <<"F", "o", "o", "d">>]

MappingSamples == {MapTea, MapHot, MapBlank, MapGas, MapCoffee}

\* the sampled mappings that name a part of a sampled description, letter case and
\* the white space around the pattern aside: written down by hand
Hits == {<<DescTea, MapTea>>, <<DescTea, MapHot>>, <<DescGas, MapGas>>}

\* the staging row of a statement line with the given description
stagedWith(description) ==
    [id |-> 1, date_raw |-> <<"2", "0", "2", "5", "0", "7", "1", "1">>,
     transaction_type |-> <<"D", "E", "B", "I", "T">>, amount_raw |-> <<"-", "5">>,
     description |-> description, processed |-> FALSE, created_at |-> 0, by |-> 1]

\* POST applies the mappings to a staging row and builds its transaction
CallApplyMapping ==
    /\ call.fn = "applyMapping" /\ ~call.done
    /\ call' = [call EXCEPT
                    !.done = TRUE,
                    !.result = [mapped |-> applyMapping(call.description, call.mappings),
                                tx     |-> candidatesOf(<<stagedWith(call.description)>>,
                                                        call.mappings)[1]]]
    /\ UNCHANGED <<dashboard, env, staging_import, transactions, tx_id_seq, payee_mapping,
                   now, storeErrors, req>>

\* the sampled date fields of statement lines
RawDates ==
    { <<"2", "0", "2", "5", "0", "7", "1", "1">>,
      <<"2", "0", "2", "5", "1", "3", "4", "0">>,
      <<"2", "0", "2", "5", "0", "2", "2", "9">>,
      <<"2", "0", "2", "5", "-", "0", "2", "-", "3", "0">>,
      <<"2", "0", "2", "5", "-", "0", "7", "-", "1", "6">>,
      <<"7", "/", "5", "/", "2", "0", "2", "5">>,
      <<"2", "/", "3", "0", "/", "2", "0", "2", "5">>,
      <<"a", "b", "c">>,
      <<" ">>,
      <<"2", "0", "2", "5", "-", "0", "7", "-", "1", "1", "T", "1", "0", ":", "0", "0", ":", "0", "0", "Z">> }

\* the staging row of a statement line with the given date
stagedOn(dateRaw) == [stagedWith(DescTea) EXCEPT !.date_raw = dateRaw]

\* POST normalizes the date of a staging row and builds its transaction, if any
CallParseDate ==
    /\ call.fn = "parseBmoDateToISO" /\ ~call.done
    /\ call' = [call EXCEPT
                    !.done = TRUE,
                    !.result = [iso        |-> parseBmoDateToISO(call.dateRaw),
                                candidates |-> candidatesOf(<<stagedOn(call.dateRaw)>>, <<>>)]]
    /\ UNCHANGED <<dashboard, env, staging_import, transactions, tx_id_seq, payee_mapping,
                   now, storeErrors, req>>

\* the most occurrences of the sampled payee
MaxOccurrences == 4

\* the sampled gaps between two occurrences that follow each other, in days
GapDays == {5, 6, 10, 11, 35, 40, 41, 50}

\* the sampled ages of the latest occurrence, in days before now: -10 is a transaction
\* dated ten days ahead
LastAges == {-10, 0, 10, 20}

\* the sampled payee, as normalizeRows names it
PayeeGym == <<"G", "Y", "M">>

\* the age in days of occurrence j (1 the earliest) of a payee whose occurrences are
\* gaps[1], gaps[2], .. days apart and whose latest one is lastAge days old
ageOf(gaps, lastAge, j) == lastAge + sumSeq([k \in 1..(Len(gaps) - j + 1) |-> gaps[j + k - 1]])

\* the normalized transactions of the sampled payee, latest first as the fetch orders
\* them, with one transaction of another payee among them
occurrencesOf(gaps, lastAge, d) ==
    LET n      == Len(gaps) + 1
        at(j)  == [id |-> j, amount |-> 0 - 1000 * j,
                   date |-> [nan |-> FALSE, time |-> d - HoursPerDay * ageOf(gaps, lastAge, j)],
                   category |-> Uncategorized, payee |-> PayeeGym, rawPayee |-> PayeeGym]
        other  == [id |-> n + 1, amount |-> 0 - 250,
                   date |-> [nan |-> FALSE, time |-> d - HoursPerDay],
                   category |-> Uncategorized, payee |-> Unknown, rawPayee |-> Unknown]
    IN  <<at(n), other>> \o [k \in 1..(n - 1) |-> at(n - k)]

\* the handler looks for recurring payees among its transactions
CallHeuristics ==
    /\ call.fn = "heuristics" /\ ~call.done
    /\ call' = [call EXCEPT
                    !.done = TRUE,
                    !.result = heuristics(occurrencesOf(call.gaps, call.lastAge, DateNow), DateNow)]
    /\ UNCHANGED <<dashboard, env, staging_import, transactions, tx_id_seq, payee_mapping,
                   now, storeErrors, req>>

\* Array.from(map.entries()).map(..).sort((a, b) => Math.abs(b.amount) - Math.abs(a.amount))
\* .slice(0, n) with the sums of the amounts by their sign
topEntriesUnsigned(keys, amounts, n) ==
    LET names   == firstSeen(keys)
        total   == [k \in 1..Len(names) |->
                       sumSeq([j \in 1..Len(keys) |->
                           IF keys[j] # names[k] THEN 0
                           ELSE IF amounts[j] < 0 THEN 0 - amounts[j] ELSE amounts[j]])]
        entries == [k \in 1..Len(names) |-> [name |-> names[k], amount |-> total[k]]]
    IN  slice(sortedBy(entries, [k \in 1..Len(names) |-> 0 - total[k]]), 0, n)

\* the first n entries of a Map filled with map.set(key, (map.get(key) || 0) + amount)
\* in the order of the transactions, sorted (stable) by falling absolute amount
topEntries(keys, amounts, n) ==
    LET names   == firstSeen(keys)
        total   == [k \in 1..Len(names) |->
                       sumSeq([j \in 1..Len(keys) |-> IF keys[j] = names[k] THEN amounts[j] ELSE 0])]
        entries == [k \in 1..Len(names) |-> [name |-> names[k], amount |-> total[k]]]
        absOf   == [k \in 1..Len(names) |-> IF total[k] < 0 THEN 0 - total[k] ELSE total[k]]
    IN  slice(sortedBy(entries, [k \in 1..Len(names) |-> 0 - absOf[k]]), 0, n)

topCategories(txs) ==
    topEntries([k \in 1..Len(txs) |-> txs[k].category], [k \in 1..Len(txs) |-> txs[k].amount], 5)

topPayees(txs) ==
    topEntries([k \in 1..Len(txs) |-> txs[k].payee], [k \in 1..Len(txs) |-> txs[k].amount], 10)

\* the most sampled transactions before or after the long list
MaxTx == 3

\* a normalized transaction of the samples
txOf(payee, category, amount) ==
    [id |-> 0, amount |-> amount, date |-> [nan |-> FALSE, time |-> ClockStart],
     category |-> category, payee |-> payee, rawPayee |-> payee]

\* the sampled transactions: two payees and two categories, sums that cancel or tie
TxSamples ==
    { txOf(<<"A">>, <<"F", "o", "o", "d">>, 0 - 500), txOf(<<"B">>, <<"F", "u", "e", "l">>, 500),
      txOf(<<"A">>, <<"F", "u", "e", "l">>, 0 - 300), txOf(<<"B">>, <<"F", "o", "o", "d">>, 0 - 300),
      txOf(<<"A">>, <<"F", "o", "o", "d">>, 500),     txOf(<<"B">>, <<"F", "u", "e", "l">>, 0 - 200) }

\* a long list: eleven more payees in five more categories, some of equal absolute sum
ManyGroups ==
    LET amounts == <<0 - 500, 500, 0 - 100, 0 - 100, 100, 0 - 900, 0 - 50, 0 - 700, 300, 0 - 300, 0 - 20>>
    IN  [k \in 1..11 |-> txOf(<<"P", Digits[(k % 10) + 1], Digits[(k \div 10) + 1]>>,
                              <<"K", Digits[(k % 5) + 1]>>, amounts[k])]

\* the handler ranks the categories and the payees of its transactions
CallTopGroups ==
    /\ call.fn = "topGroups" /\ ~call.done
    /\ call' = [call EXCEPT
                    !.done = TRUE,
                    !.result = [topCategories |-> topCategories(call.txs),
                                topPayees     |-> topPayees(call.txs)]]
    /\ UNCHANGED <<dashboard, env, staging_import, transactions, tx_id_seq, payee_mapping,
                   now, storeErrors, req>>

\* the other state of the model during a call
InitIdle ==
    /\ CACHE = <<>>
    /\ recurring_summary = <<>>
    /\ dash = [r \in Requests |-> IdleDash]
    /\ env = [IMPORT_API_KEY |-> ImportKey, SUPABASE_URL |-> <<"u">>, SERVICE_ROLE |-> <<"s">>]
    /\ staging_import = <<>>
    /\ transactions = {}
    /\ tx_id_seq = 0
    /\ payee_mapping = <<>>
    /\ now = 0
    /\ storeErrors = 0
    /\ req = [r \in Requests |-> IdleRequest]

\* a function is about to be called with arguments of the samples
InitFn ==
    /\ InitIdle
    /\ \/ \E lines \in LineLists :
              call = [fn |-> "findHeader", done |-> FALSE, result |-> NoResult, lines |-> lines]
       \/ \E lines \in DataLists :
              call = [fn |-> "parseContent", done |-> FALSE, result |-> NoResult, lines |-> lines,
                      content |-> contentOfLines(<<LineTitle, LineHeader>> \o lines)]
       \/ \E description \in {DescTea, DescGas}, mappings \in SeqsUpTo(MappingSamples, MaxMappings) :
              call = [fn |-> "applyMapping", done |-> FALSE, result |-> NoResult,
                      description |-> description, mappings |-> mappings]
       \/ \E dateRaw \in RawDates :
              call = [fn |-> "parseBmoDateToISO", done |-> FALSE, result |-> NoResult,
                      dateRaw |-> dateRaw]
       \/ \E n \in 2..MaxOccurrences, lastAge \in LastAges :
              \E gaps \in [1..(n - 1) -> GapDays] :
                  call = [fn |-> "heuristics", done |-> FALSE, result |-> NoResult,
                          gaps |-> gaps, lastAge |-> lastAge]
       \/ \E few \in SeqsUpTo(TxSamples, MaxTx) :
              \E txs \in {few, few \o ManyGroups, ManyGroups \o few} :
                  call = [fn |-> "topGroups", done |-> FALSE, result |-> NoResult, txs |-> txs]

NextFn ==
    \/ CallFindHeader
    \/ CallParseContent
    \/ CallApplyMapping
    \/ CallParseDate
    \/ CallHeuristics
    \/ CallTopGroups

\* calls of single functions
SpecFn == InitFn /\ [][NextFn]_vars

(***************************************************************************)
(* Properties of the functions.                                            *)
(***************************************************************************)
\* C21: findHeader returns the lowest line that holds the four required names, with
\* the four names among its columns, and null when no line holds them; a line that
\* lacks one of the names is never returned
C21_FindHeaderFirstQualifying ==
    call.fn = "findHeader" /\ call.done =>
        LET at == {i \in 1..Len(call.lines) : call.lines[i] \in HeaderLines}
        IN  IF at = {} THEN call.result = NoHeader
            ELSE /\ call.result.found
                 /\ call.result.headerIndex = Min(at) - 1
                 /\ \A k \in 1..Len(required) : required[k] \in Range(call.result.cols)

\* findHeader returned the second line: the first lacks a required name and the
\* third holds the four names as well
C21_Witness ==
    /\ call.fn = "findHeader" /\ call.done
    /\ Len(call.lines) = 3
    /\ call.lines[1] = LineHeaderNoAmount
    /\ call.lines[2] \in HeaderLines /\ call.lines[3] \in HeaderLines
    /\ call.lines[2] # call.lines[3]
    /\ call.result.found /\ call.result.headerIndex = 1

\* C22: the rows POST stages are the rows of the lines after the header that hold a
\* type, a date and an amount, in the order of the lines; the other lines are left
\* out without an error of their own; the fields after the description are appended
\* to the description
C22_StagedRowsAreCompleteLines ==
    call.fn = "parseContent" /\ call.done =>
        LET expected == concat([k \in 1..Len(call.lines) |-> ExpectedRow(call.lines[k])])
        IN  IF expected = <<>>
            THEN call.result.rows = <<>> /\ call.result.resp.status = 400
            ELSE call.result.rows = expected /\ call.result.resp = NoResponse

\* a statement whose first line lacks the date was parsed into two rows, the first
\* with the trailing fields in its description
C22_Witness ==
    /\ call.fn = "parseContent" /\ call.done
    /\ call.lines = <<RowNoDate, RowExtra, LineData>>
    /\ Len(call.result.rows) = 2
    /\ call.result.rows[1].description = <<"P", "A", "Y", " ", "e", "x", "t", "r", "a", " ", "m", "o", "r", "e">>
    /\ call.result.rows[2].description = <<"T", "E", "A">>

\* the category a mapping gives: its own, or the default
categoryOf(m) == IF m.category = <<>> THEN Uncategorized ELSE m.category

\* what C23 says of a call, hits being the places of the mappings that match
FirstHitWins(hits) ==
    LET m == call.mappings[Min(hits)]
    IN  IF hits = {}
        THEN /\ call.result.mapped = [category |-> Uncategorized, normalized |-> <<>>]
             /\ call.result.tx.category = Uncategorized
             /\ call.result.tx.payee_clean = cleanPayee(call.description)
        ELSE /\ call.result.mapped = [category |-> categoryOf(m), normalized |-> m.normalized]
             /\ call.result.tx.category = categoryOf(m)
             /\ call.result.tx.payee_clean
                    = IF m.normalized # <<>> THEN m.normalized ELSE cleanPayee(call.description)

\* C23 as stated: applyMapping returns category and payee of the first mapping whose
\* pattern is a substring of the description, letter case aside, and the default
\* category with the cleaned payee when there is none
C23_FirstSubstringWins ==
    call.fn = "applyMapping" /\ call.done =>
        FirstHitWins({k \in 1..Len(call.mappings) :
                         includes(toUpperCase(call.description),
                                  toUpperCase(call.mappings[k].pattern))})

\* C23, amended: the first mapping whose pattern, without the white space around it,
\* is not empty and is a substring of the description, letter case aside
C23_FirstNonBlankPatternWins ==
    call.fn = "applyMapping" /\ call.done =>
        FirstHitWins({k \in 1..Len(call.mappings) :
                         <<call.description, call.mappings[k]>> \in Hits})

\* a blank pattern came first and was passed over, and of the two mappings that match
\* the description the first one won
C23_Witness ==
    /\ call.fn = "applyMapping" /\ call.done
    /\ call.description = DescTea
    /\ \/ call.mappings = <<MapBlank, MapTea>> /\ call.result.tx.payee_clean = MapTea.normalized
       \/ call.mappings = <<MapHot, MapTea>> /\ call.result.tx.category = MapHot.category

\* text is YYYY-MM-DD and names a day of the calendar
isCalendarDate(text) ==
    /\ Len(text) = 10
    /\ AllDigits(slice(text, 0, 4)) /\ text[5] = "-"
    /\ AllDigits(slice(text, 5, 7)) /\ text[8] = "-"
    /\ AllDigits(slice(text, 8, 10))
    /\ DigitsToInt(slice(text, 5, 7)) \in 1..12
    /\ DigitsToInt(slice(text, 8, 10))
           \in 1..daysInMonth(DigitsToInt(slice(text, 0, 4)), DigitsToInt(slice(text, 5, 7)))

\* C24: parseBmoDateToISO returns null or a day of the calendar as YYYY-MM-DD, and so
\* every transaction POST builds from a staging row carries such a date
C24_DatesAreCalendarDates ==
    call.fn = "parseBmoDateToISO" /\ call.done =>
        /\ call.result.iso # null => isCalendarDate(call.result.iso)
        /\ \A k \in 1..Len(call.result.candidates) :
               isCalendarDate(call.result.candidates[k].date)


\* whether the gaps (in days) are those of a recurring payee: their mean is between 6
\* and 40 and their population variance is at most 15 squared
regular(gaps) ==
    LET m == Len(gaps)
        S == sumSeq(gaps)
    IN  /\ 6 * m <= S /\ S <= 40 * m
        /\ sumSeq([i \in 1..m |-> (m * gaps[i] - S) * (m * gaps[i] - S)]) <= 15 * 15 * m * m * m

\* what the heuristic has to say of the sampled payee when the occurrences in I (some
\* that follow each other) are those that count
EmittedFor(I) ==
    LET n     == Cardinality(I)
        first == IF I = {} THEN 1 ELSE CHOOSE j \in I : \A i \in I : j <= i
        gaps  == [k \in 1..(n - 1) |-> call.gaps[first + k - 1]]
        mine  == SelectSeq(call.result, LAMBDA h : h.payee = PayeeGym)
    IN  IF n >= 3 /\ regular(gaps)
        THEN /\ Len(mine) = 1
             /\ mine[1].occurrences = n
             /\ mine[1].frequency = IF sumSeq(gaps) <= 10 * (n - 1) THEN Weekly ELSE Monthly
        ELSE mine = <<>>

magnitude(n) == IF n < 0 THEN 0 - n ELSE n

\* a top list of at most n groups of the transactions txs, each with the signed sum of
\* the group named by key, largest absolute sum first, equal ones as first met
RankedSums(top, txs, key, n) ==
    LET firstAt(name) == CHOOSE j \in 1..Len(txs) :
                             txs[j][key] = name /\ \A i \in 1..(j - 1) : txs[i][key] # name
        sumOf(name)   == sumSeq([j \in 1..Len(txs) |-> IF txs[j][key] = name THEN txs[j].amount ELSE 0])
    IN  /\ Len(top) <= n
        /\ \A k \in 1..Len(top) :
               /\ \E j \in 1..Len(txs) : txs[j][key] = top[k].name
               /\ top[k].amount = sumOf(top[k].name)
        /\ \A k \in 1..(Len(top) - 1) :
               \/ magnitude(top[k].amount) > magnitude(top[k + 1].amount)
               \/ /\ magnitude(top[k].amount) = magnitude(top[k + 1].amount)
                  /\ firstAt(top[k].name) < firstAt(top[k + 1].name)

\* C26: topCategories holds at most 5 and topPayees at most 10 groups, each with the signed
\* sum of its amounts, by falling absolute sum, groups of equal absolute sum in the order
\* in which their keys were first met
C26_TopListsRankedBySignedSum ==
    (call.fn = "topGroups" /\ call.done) =>
        /\ RankedSums(call.result.topCategories, call.txs, "category", 5)
        /\ RankedSums(call.result.topPayees, call.txs, "payee", 10)

\* more than ten payees and five categories, and two payees next to each other in the
\* list whose sums are opposite
C26_Witness ==
    /\ call.fn = "topGroups" /\ call.done
    /\ Cardinality({call.txs[j].payee : j \in 1..Len(call.txs)}) > 10
    /\ Cardinality({call.txs[j].category : j \in 1..Len(call.txs)}) > 5
    /\ Len(call.result.topPayees) = 10 /\ Len(call.result.topCategories) = 5
    /\ \E k \in 1..9 :
           /\ call.result.topPayees[k].amount = 0 - call.result.topPayees[k + 1].amount
           /\ call.result.topPayees[k].amount # 0
====
